---- MODULE Spec2Model ----
(***************************************************************************)
(* Verification model of the Sanity -> Strapi migration tool.              *)
(*                                                                         *)
(*  Part I    UniversalContentMigrator (lib/core/content-migrator.js):     *)
(*            batched entity creation, deferred relationship queue and the *)
(*            resolution pass, against a target store that may reject any  *)
(*            request.                                                     *)
(*  Part II   DynamicSchemaGenerator relationship inference                *)
(*            (lib/core/schema-generator.js).                              *)
(*  Part III  pluralize / singularize and getRelationshipKey as pure       *)
(*            functions over bounded words.                                *)
(***************************************************************************)
EXTENDS Integers, Sequences, FiniteSets, TLC

(***************************************************************************)
(* Bounds of the model.                                                    *)
(***************************************************************************)
MaxDocs == 3          \* documents in the export stream, content migration alone
MaxRunDocs == 3       \* documents in the export stream, whole run
BatchSize == 2        \* config.batchSize of the run
MaxRejections == 1    \* requests of the resolution passes the target store rejects
MaxSchemas == 3       \* schema files of the source project
MaxFields == 2        \* fields of a schema
MaxReferences == 3    \* reference fields of all schemas together
MaxWordLen == 4       \* letters of a word given to pluralize
MaxNameLen == 2       \* characters of a type name given to getRelationshipKey
MaxLines == 2         \* documents in the export analyzeExportedData reads
MaxMarks == 2         \* marks of a span of rich text
MaxMedia == 2         \* items of the array a media field receives
MaxAssets == 2        \* assets of assets.json

VARIABLES
  documents,       \* the export stream (data.ndjson), a sequence of documents
  migrationState,  \* this.migrationState: entities, pendingRelationships, errors, progress
  pc,              \* position of migrate()
  typeQueue,       \* the content types in the order migrateContent visits them
  typeIdx,         \* index into typeQueue of the type being migrated
  batchStart,      \* loop variable i of the batch loop
  docPc,           \* per document: position of its migrateDocument call
  payload,         \* per document: body of its create request
  relIdx,          \* index of the pending relationship the pass is at
  relPc,           \* position of the processRelationship call
  updateData,      \* the merged field value processRelationship is about to PUT
  passes,          \* number of resolution passes started
  strapi,          \* the target store: sequence of entities, index = id
  rejections,      \* number of requests of the resolution passes the store has rejected
  docOutcome,      \* per document: what the store decided for its create request
  relTrace,        \* per pending relationship, this pass: outcome, counter, requests
  issued,          \* number of requests sent to the store, per verb
  afterFirstPass,  \* the store as the first resolution pass left it
  assetList,       \* the assets loadSanityData read from assets.json (assets)
  images,          \* the files of the images directory of the export
  assetIdx,        \* migrateAssets: index of the asset of the current iteration
  assetPc,         \* migrateAssets: position within the iteration
  assetOutcome     \* per asset: how its iteration ended

assetVars == <<assetList, images, assetIdx, assetPc, assetOutcome>>

migVars == <<documents, migrationState, pc, typeQueue, typeIdx, batchStart, docPc,
             payload, relIdx, relPc, updateData, passes, strapi, rejections,
             docOutcome, relTrace, issued, afterFirstPass, assetVars>>

VARIABLES
  schemas,          \* this.schemas: Map name -> schema, as [name, fields] in insertion order
  allReferences,    \* this.allReferences: Map name -> references, in insertion order
  relationshipMap,  \* the local relationshipMap of analyzeBidirectionalRelationships
  relationships,    \* this.relationships: Map name -> Map fieldName -> config
  genPc,            \* position of the generator's run
  parsedFiles,      \* the schema files read so far: [name, folder, file]
  singletonTypes,   \* this.singletonTypes
  documentCounts,   \* this.documentCounts: Map type -> count
  strapiSchemas,    \* the schema.json files written: name -> schema
  components        \* this.components: Map key -> component

kindVars == <<parsedFiles, singletonTypes, documentCounts, strapiSchemas, components>>

genVars == <<schemas, allReferences, relationshipMap, relationships, genPc, kindVars>>

VARIABLES
  input,    \* the argument
  other,   \* the second argument of getRelationshipKey
  result,  \* the values returned so far
  fnPc     \* which calls have been made

fnVars == <<input, other, result, fnPc>>

VARIABLES
  invocation,  \* the command line, the environment and the file system of a run
  runner       \* the run of the command: config, position, phases run, writes made

runVars == <<invocation, runner>>

vars == <<migVars, genVars, fnVars, runVars>>

(***************************************************************************)
(* JavaScript values.  Every value is a record [kind, items] so that any   *)
(* two values can be compared.                                             *)
(***************************************************************************)
Null == [kind |-> "null", items |-> <<>>]
Str == [kind |-> "string", items |-> <<>>]
Reference(id) == [_type |-> "reference", _ref |-> id]
InlineObject == [_type |-> "tag", _ref |-> "undefined"]
StrapiId(n) == [kind |-> "id", n |-> n]
DocumentId(n) == [kind |-> "documentId", n |-> n]
Single(item) == [kind |-> "single", items |-> <<item>>]
Array(items) == [kind |-> "array", items |-> items]
IsArray(v) == v.kind = "array"
Includes(seq, x) == \E k \in 1..Len(seq) : seq[k] = x
\* sanityValue[0] of an empty array
Undefined == [_type |-> "undefined", _ref |-> "undefined"]
\* the exception a transformation ends with
Thrown == [kind |-> "thrown", items |-> <<>>]
\* an image object {asset: {_ref: "image-<hash>-<dimensions>-<format>"}}
Image(hash) ==
  [_type |-> "image", _ref |-> "undefined", asset |-> <<"image-", hash, "-", "2x2-png">>]
\* an image object {_sanityAsset: "image@file://./images/<hash>-<dimensions>.<format>"}
ExportedImage(hash) ==
  [_type |-> "image", _ref |-> "undefined",
   _sanityAsset |-> <<"image@file://./", "images/", hash, "-", "2x2.png">>]
\* a file object {asset: {_ref: "file-<hash>-<format>"}}
File(hash) ==
  [_type |-> "file", _ref |-> "undefined", asset |-> <<"file-", hash, "-", "pdf">>]

Range(seq) == {seq[k] : k \in 1..Len(seq)}

(***************************************************************************)
(* The generated Strapi schemas the migrator loads (loadSchemaMapping).    *)
(* category and post carry a relation attribute, event carries the json    *)
(* fallback of an unresolved reference, note has no schema at all.         *)
(***************************************************************************)
ContentTypes == {"category", "post", "event", "note", "page"}

schemaMapping ==
  [category |-> [attributes |-> [title |-> [type |-> "string", relation |-> "none"],
                                 related |-> [type |-> "relation", relation |-> "oneToMany"]]],
   post |-> [attributes |-> [title |-> [type |-> "string", relation |-> "none"],
                             related |-> [type |-> "relation", relation |-> "manyToOne"]]],
   event |-> [attributes |-> [title |-> [type |-> "string", relation |-> "none"],
                              related |-> [type |-> "json", relation |-> "none"]]],
   page |-> [attributes |-> [related |-> [type |-> "media", relation |-> "none",
                                          multiple |-> FALSE],
                             body |-> [type |-> "string", relation |-> "none"]]]]

\* const migrationOrder = [...]
migrationOrder == <<"category", "person", "product", "page", "post">>

(***************************************************************************)
(* The documents an export may hold.  No document has the id "zz": a       *)
(* reference to it is out of the migration's scope.  Two of the documents  *)
(* carry the same id "a".                                                  *)
(***************************************************************************)
SourceDocuments ==
  { [id |-> "a", type |-> "category", title |-> Str, body |-> Null,
     related |-> Array(<<Reference("b"), Reference("b")>>)],
    [id |-> "b", type |-> "post", title |-> Str, body |-> Null,
     related |-> Single(Reference("a"))],
    [id |-> "c", type |-> "post", title |-> Str, body |-> Null,
     related |-> Array(<<Reference("a"), InlineObject, Reference("zz")>>)],
    [id |-> "a", type |-> "post", title |-> Str, body |-> Null,
     related |-> Array(<<Reference("c"), Reference("a")>>)],
    [id |-> "e", type |-> "event", title |-> Str, body |-> Null,
     related |-> Array(<<Reference("a")>>)],
    [id |-> "n", type |-> "note", title |-> Str, body |-> Null, related |-> Null],
    [id |-> "p", type |-> "page", title |-> Str, body |-> Str, related |-> Array(<<>>)] }

\* the assets of assets.json: h1 is a png, h2 a jpg, h3 carries no metadata
SourceAssets ==
  { [_key |-> "h1", sha1hash |-> "h1", dimensions |-> "2x2", format |-> "png",
     metadata |-> TRUE],
    [_key |-> "h2", sha1hash |-> "h2", dimensions |-> "2x2", format |-> "jpg",
     metadata |-> TRUE],
    [_key |-> "h3", sha1hash |-> "h3", dimensions |-> "undefined", format |-> "png",
     metadata |-> FALSE] }

\* assets.json lists its assets in one order; an export holds the first n of them
AssetsFile ==
  LET asset(key) == CHOOSE a \in SourceAssets : a._key = key
  IN <<asset("h2"), asset("h1"), asset("h3")>>

AssetLists(n) ==
  {SubSeq(AssetsFile, 1, m) : m \in 0..(IF n < Len(AssetsFile) THEN n ELSE Len(AssetsFile))}

\* the images directory of the export: each file under the format of its asset
ImageFiles == {<<"h1", "2x2", "png">>, <<"h2", "2x2", "jpg">>}

\* an export of a page with an image, and of a category and three posts, two of
\* which refer to other documents
RunDocuments ==
  << [id |-> "q", type |-> "page", title |-> Str, body |-> Str,
      related |-> Single(Image("h2"))],
     [id |-> "a", type |-> "category", title |-> Str, body |-> Null,
      related |-> Array(<<Reference("b"), Reference("b")>>)],
     [id |-> "b", type |-> "post", title |-> Str, body |-> Null,
      related |-> Single(Reference("a"))],
     [id |-> "c", type |-> "post", title |-> Str, body |-> Null, related |-> Null],
     [id |-> "a", type |-> "post", title |-> Str, body |-> Null,
      related |-> Array(<<Reference("zz"), InlineObject, Reference("a")>>)] >>

\* the documents of the types that carry relation attributes
RelatedDocuments ==
  {doc \in SourceDocuments :
     /\ doc.type \in DOMAIN schemaMapping
     /\ schemaMapping[doc.type].attributes.related.type = "relation"}

DocFields == <<"title", "related", "body">>

BoundedSeq(S, n) == UNION {[1..m -> S] : m \in 0..n}

\* the exports of at most n of the documents of S, each listed once
Exports(S, n) ==
  {docs \in BoundedSeq(S, n) : \A i, j \in 1..Len(docs) : i # j => docs[i] # docs[j]}

(***************************************************************************)
(* pluralize, over words written as sequences of one-letter strings.       *)
(***************************************************************************)
EndsWith(word, suffix) ==
  /\ Len(word) >= Len(suffix)
  /\ SubSeq(word, Len(word) - Len(suffix) + 1, Len(word)) = suffix

\* word.slice(0, -n)
DropLast(word, n) == SubSeq(word, 1, Len(word) - n)

pluralize(word) ==
  IF EndsWith(word, <<"y">>) THEN DropLast(word, 1) \o <<"i", "e", "s">>
  ELSE IF \/ EndsWith(word, <<"s">>)
          \/ EndsWith(word, <<"s", "h">>)
          \/ EndsWith(word, <<"c", "h">>)
          \/ EndsWith(word, <<"x">>)
          \/ EndsWith(word, <<"z">>)
       THEN word \o <<"e", "s">>
       ELSE word \o <<"s">>

singularize(w) ==
  IF EndsWith(w, <<"i", "e", "s">>) THEN DropLast(w, 3) \o <<"y">>
  ELSE IF EndsWith(w, <<"e", "s">>) THEN DropLast(w, 2)
  ELSE IF EndsWith(w, <<"s">>) /\ ~EndsWith(w, <<"s", "s">>) THEN DropLast(w, 1)
  ELSE w

\* the letters of a content type's name
Letters ==
  [category |-> <<"c", "a", "t", "e", "g", "o", "r", "y">>,
   post |-> <<"p", "o", "s", "t">>,
   event |-> <<"e", "v", "e", "n", "t">>,
   note |-> <<"n", "o", "t", "e">>]

(***************************************************************************)
(* groupDocumentsByType and the order in which migrateContent visits the   *)
(* types: the types of migrationOrder that have documents, then the other  *)
(* types in the order Object.entries yields them (first appearance).       *)
(***************************************************************************)
RECURSIVE IndicesOfType(_, _, _)
IndicesOfType(docs, t, k) ==
  IF k > Len(docs) THEN <<>>
  ELSE (IF docs[k].type = t THEN <<k>> ELSE <<>>) \o IndicesOfType(docs, t, k + 1)

groupDocumentsByType(docs) ==
  [t \in {docs[k].type : k \in 1..Len(docs)} |-> IndicesOfType(docs, t, 1)]

RECURSIVE KeysInInsertionOrder(_, _)
KeysInInsertionOrder(docs, k) ==
  IF k > Len(docs) THEN <<>>
  ELSE LET earlier == {docs[j].type : j \in 1..(k - 1)}
       IN (IF docs[k].type \in earlier THEN <<>> ELSE <<docs[k].type>>)
          \o KeysInInsertionOrder(docs, k + 1)

migrateContentOrder(docs) ==
  LET grouped == groupDocumentsByType(docs)
      Ordered(t) == t \in DOMAIN grouped
      Remaining(t) == ~Includes(migrationOrder, t)
  IN SelectSeq(migrationOrder, Ordered)
     \o SelectSeq(KeysInInsertionOrder(docs, 1), Remaining)

\* variant: the slice runs to the end of the documents of the type
batchToEnd(docs, contentType, i) ==
  SubSeq(groupDocumentsByType(docs)[contentType], i + 1,
         Len(groupDocumentsByType(docs)[contentType]))

\* docs.slice(i, i + batchSize), as document indices
batchOf(docs, contentType, i) ==
  LET all == groupDocumentsByType(docs)[contentType]
      last == IF i + BatchSize < Len(all) THEN i + BatchSize ELSE Len(all)
  IN SubSeq(all, i + 1, last)

(***************************************************************************)
(* Schema-aware transformation of one document.                            *)
(***************************************************************************)
RECURSIVE referencesOf(_, _, _, _, _, _)
\* the for-loop of storeRelationshipForProcessing over an array value
referencesOf(sourceType, sourceId, fieldName, items, relation, k) ==
  IF k > Len(items) THEN <<>>
  ELSE (IF items[k]._type = "reference" /\ items[k]._ref # "undefined"
        THEN <<[sourceType |-> sourceType, sourceId |-> sourceId,
                fieldName |-> fieldName, targetId |-> items[k]._ref,
                isArray |-> TRUE, relation |-> relation]>>
        ELSE <<>>)
       \o referencesOf(sourceType, sourceId, fieldName, items, relation, k + 1)

\* variant: isArray taken from the relation kind of the schema (the local the code
\* computes and never uses) instead of from the raw value
storeRelationshipByKind(sourceType, sourceId, fieldName, sanityValue, cfg) ==
  LET byKind == cfg.relation \in {"oneToMany", "manyToMany"}
      items == IF IsArray(sanityValue) THEN sanityValue.items
               ELSE IF sanityValue.kind = "single" THEN sanityValue.items ELSE <<>>
      entries == referencesOf(sourceType, sourceId, fieldName, items, cfg.relation, 1)
  IN [k \in 1..Len(entries) |-> [entries[k] EXCEPT !.isArray = byKind]]

\* the entries storeRelationshipForProcessing pushes on pendingRelationships
storeRelationshipForProcessing(sourceType, sourceId, fieldName, sanityValue, cfg) ==
  IF IsArray(sanityValue)
  THEN referencesOf(sourceType, sourceId, fieldName, sanityValue.items, cfg.relation, 1)
  ELSE IF /\ sanityValue.kind = "single"
          /\ sanityValue.items[1]._type = "reference"
          /\ sanityValue.items[1]._ref # "undefined"
       THEN <<[sourceType |-> sourceType, sourceId |-> sourceId,
               fieldName |-> fieldName, targetId |-> sanityValue.items[1]._ref,
               isArray |-> FALSE, relation |-> cfg.relation]>>
       ELSE <<>>

\* the hexadecimal strings of the model
HexStrings == {"h1", "h2"}

\* imageObj.asset._ref.match(/image-([a-f0-9]+)-/): <<the group>>, <<>> without a match
matchImageRef(ref) ==
  IF \E k \in 1..(Len(ref) - 2) :
       ref[k] = "image-" /\ ref[k + 1] \in HexStrings /\ ref[k + 2] = "-"
  THEN <<ref[(CHOOSE k \in 1..(Len(ref) - 2) :
                ref[k] = "image-" /\ ref[k + 1] \in HexStrings /\ ref[k + 2] = "-") + 1]>>
  ELSE <<>>

\* sanityAsset.match(/images\/([^-]+)/): the run of characters after "images/"
extractAssetKey(sanityAsset) ==
  IF \E k \in 1..(Len(sanityAsset) - 1) : sanityAsset[k] = "images/"
  THEN <<sanityAsset[(CHOOSE k \in 1..(Len(sanityAsset) - 1) :
                        sanityAsset[k] = "images/") + 1]>>
  ELSE <<sanityAsset>>

\* <<assetId>>, <<>> for null; the argument is an object
extractAssetIdFromImage(imageObj) ==
  IF "_sanityAsset" \in DOMAIN imageObj THEN extractAssetKey(imageObj._sanityAsset)
  ELSE IF "asset" \in DOMAIN imageObj THEN matchImageRef(imageObj.asset)
  ELSE <<>>

\* the single-media branch of transformMediaField; reading a property of undefined throws
transformSingleMedia(imageObj, assets) ==
  IF imageObj = Undefined THEN Thrown
  ELSE LET assetId == extractAssetIdFromImage(imageObj)
       IN IF assetId # <<>> /\ assetId[1] \in DOMAIN assets
          THEN assets[assetId[1]].id
          ELSE Null

RECURSIVE transformMediaItems(_, _, _)
\* the loop of the multi-media branch: the ids of the items found in the asset map
transformMediaItems(items, assets, k) ==
  IF k > Len(items) THEN <<>>
  ELSE LET assetId == extractAssetIdFromImage(items[k])
           rest == transformMediaItems(items, assets, k + 1)
       IN IF assetId # <<>> /\ assetId[1] \in DOMAIN assets
          THEN <<assets[assetId[1]].id>> \o rest
          ELSE rest

transformMediaField(sanityValue, cfg, assets) ==
  LET isMultiple == cfg.multiple = TRUE
  IN IF IsArray(sanityValue)
     THEN IF ~isMultiple
          THEN transformSingleMedia(IF Len(sanityValue.items) > 0
                                    THEN sanityValue.items[1] ELSE Undefined, assets)
          ELSE Array(transformMediaItems(sanityValue.items, assets, 1))
     ELSE IF sanityValue.kind = "single"
          THEN transformSingleMedia(sanityValue.items[1], assets)
          ELSE Null

\* [value, rels]: the transformed value (Null: left out, Thrown: the transformation
\* threw) and the queue entries pushed
transformFieldWithSchema(fieldName, sanityValue, cfg, document, contentType, assets) ==
  IF sanityValue = Null THEN [value |-> Null, rels |-> <<>>]
  ELSE IF cfg.type = "media"
       THEN [value |-> transformMediaField(sanityValue, cfg, assets), rels |-> <<>>]
  ELSE IF cfg.type = "relation"
       THEN [value |-> Null,
             rels |-> storeRelationshipForProcessing(contentType, document.id,
                                                     fieldName, sanityValue, cfg)]
       ELSE [value |-> sanityValue, rels |-> <<>>]

RECURSIVE transformFields(_, _, _, _, _)
\* the loop of transformDocumentWithSchema over the fields of the document from the
\* k-th on; the exception of a field is caught and the field left out
transformFields(document, strapiSchema, contentType, k, assets) ==
  IF k > Len(DocFields) THEN [transformed |-> <<>>, rels |-> <<>>]
  ELSE LET name == DocFields[k]
           rest == transformFields(document, strapiSchema, contentType, k + 1, assets)
       IN IF name \notin DOMAIN strapiSchema.attributes THEN rest
          ELSE LET r == transformFieldWithSchema(name, document[name],
                                                 strapiSchema.attributes[name],
                                                 document, contentType, assets)
               IN [transformed |-> IF r.value \in {Null, Thrown} THEN rest.transformed
                                   ELSE (name :> r.value) @@ rest.transformed,
                   rels |-> r.rels \o rest.rels]

\* variant: the exception of a field leaves the document transformation
transformDocumentRethrowing(document, strapiSchema, contentType, assets) ==
  LET t == transformFields(document, strapiSchema, contentType, 1, assets)
  IN [transformed |-> ("publishedAt" :> Str) @@ t.transformed, rels |-> t.rels,
      thrown |-> \E name \in Range(DocFields) \cap DOMAIN strapiSchema.attributes :
                   transformFieldWithSchema(name, document[name],
                                            strapiSchema.attributes[name],
                                            document, contentType, assets).value = Thrown]

\* thrown: an exception leaves the transformation (never: each field has its catch)
transformDocumentWithSchema(document, strapiSchema, contentType, assets) ==
  LET t == transformFields(document, strapiSchema, contentType, 1, assets)
  IN [transformed |-> ("publishedAt" :> Str) @@ t.transformed, rels |-> t.rels,
      thrown |-> FALSE]

(***************************************************************************)
(* The target store.  An entity is [contentType, data]; its id is its      *)
(* index in strapi.  A GET returns the entity's data as last written.      *)
(***************************************************************************)
\* /api/<plural>/<documentId>
endpoint(contentType, documentId) ==
  [collection |-> pluralize(Letters[contentType]), documentId |-> documentId]

\* the entities the store serves under an endpoint
lookup(store, ep) ==
  {n \in 1..Len(store) :
     /\ DocumentId(n) = ep.documentId
     /\ pluralize(Letters[store[n].contentType]) = ep.collection}

\* what a GET of entity n answers: its attributes and the server-managed ones
getResponse(store, n) ==
  [id |-> StrapiId(n), documentId |-> DocumentId(n), createdAt |-> Str,
   updatedAt |-> Str] @@ store[n].data

\* a PUT of data on entity n: the attributes given replace the stored ones
putEntity(store, n, data) ==
  [store EXCEPT ![n].data = data @@ @]

(***************************************************************************)
(* migrationState updates.                                                 *)
(***************************************************************************)
\* variant: the failure is counted but not logged
entityFailedUnlogged(ms, contentType, document, message) ==
  [ms EXCEPT !.progress.entities.failed = @ + 1]

\* the catch block of migrateDocument
entityFailed(ms, contentType, document, message) ==
  [ms EXCEPT !.progress.entities.failed = @ + 1,
             !.errors = Append(@, [type |-> "entity", contentType |-> contentType,
                                   id |-> document.id, error |-> message])]

\* migrateDocument after createStrapiEntity returned
entityCreated(ms, contentType, document, n) ==
  [ms EXCEPT !.entities = (document.id :> [strapiId |-> StrapiId(n),
                                            documentId |-> DocumentId(n),
                                            contentType |-> contentType]) @@ @,
             !.progress.entities.completed = @ + 1]

\* processPendingRelationships: processRelationship returned
relationshipCompleted(ms) ==
  [ms EXCEPT !.progress.relationships.completed = @ + 1]

\* processPendingRelationships: processRelationship threw
relationshipFailed(ms, relationship, message) ==
  [ms EXCEPT !.progress.relationships.failed = @ + 1,
             !.errors = Append(@, [type |-> "relationship", contentType |-> "undefined",
                                   id |-> relationship.sourceId, error |-> message])]

\* a || b
OrElse(a, b) == IF a # Null THEN a ELSE b

\* variant: the target id is appended without the includes() test
mergeRelationAppending(currentData, relationship, targetDocumentId) ==
  LET fieldName == relationship.fieldName
      current == IF fieldName \in DOMAIN currentData /\ IsArray(currentData[fieldName])
                 THEN currentData[fieldName].items
                 ELSE <<>>
      value == IF relationship.isArray
               THEN Array(Append(current, targetDocumentId))
               ELSE Single(targetDocumentId)
      merged == (fieldName :> value) @@ currentData
      kept == DOMAIN merged \ {"id", "documentId", "createdAt", "updatedAt", "publishedAt"}
  IN [f \in kept |-> merged[f]]

\* variant: the array is rebuilt from the target id alone, as if the entity read held
\* none of the members written before
mergeRelationOverwriting(currentData, relationship, targetDocumentId) ==
  LET fieldName == relationship.fieldName
      value == IF relationship.isArray
               THEN Array(<<targetDocumentId>>)
               ELSE Single(targetDocumentId)
      merged == (fieldName :> value) @@ currentData
      kept == DOMAIN merged \ {"id", "documentId", "createdAt", "updatedAt", "publishedAt"}
  IN [f \in kept |-> merged[f]]

\* processRelationship: the merge of the relation into the entity read
mergeRelation(currentData, relationship, targetDocumentId) ==
  LET fieldName == relationship.fieldName
      current == IF fieldName \in DOMAIN currentData /\ IsArray(currentData[fieldName])
                 THEN currentData[fieldName].items
                 ELSE <<>>
      value == IF relationship.isArray
               THEN Array(IF Includes(current, targetDocumentId) THEN current
                          ELSE Append(current, targetDocumentId))
               ELSE Single(targetDocumentId)
      merged == (fieldName :> value) @@ currentData
      kept == DOMAIN merged \ {"id", "documentId", "createdAt", "updatedAt", "publishedAt"}
  IN [f \in kept |-> merged[f]]

(***************************************************************************)
(* State after construction, an export loaded.                             *)
(***************************************************************************)
NoProgress == [total |-> 0, completed |-> 0, failed |-> 0]

\* the state after the constructor and loadSanityData, at the step start of migrate
MigrateInitial(exports, assetLists, imageSets, start) ==
  /\ documents \in exports
  /\ assetList \in assetLists
  /\ images \in imageSets
  /\ migrationState = [assets |-> <<>>, entities |-> <<>>, pendingRelationships |-> <<>>,
                       errors |-> <<>>,
                       progress |-> [assets |-> NoProgress, entities |-> NoProgress,
                                     relationships |-> NoProgress]]
  /\ pc = start
  /\ typeQueue = <<>>
  /\ typeIdx = 1
  /\ batchStart = 0
  /\ docPc = [d \in 1..Len(documents) |-> "idle"]
  /\ payload = [d \in 1..Len(documents) |-> <<>>]
  /\ relIdx = 1
  /\ relPc = "idle"
  /\ updateData = <<>>
  /\ passes = 0
  /\ strapi = <<>>
  /\ rejections = 0
  /\ docOutcome = [d \in 1..Len(documents) |-> "none"]
  /\ relTrace = <<>>
  /\ issued = [post |-> 0, get |-> 0, put |-> 0, upload |-> 0]
  /\ afterFirstPass = <<>>
  /\ assetIdx = 1
  /\ assetPc = "idle"
  /\ assetOutcome = [k \in 1..Len(assetList) |-> "none"]

\* migrateContent(documents) of an export without assets
MigInit(exports) == MigrateInitial(exports, {<<>>}, {{}}, "migrateContent")

(***************************************************************************)
(* migrateAssets: one asset after the other.  A file of the images          *)
(* directory is <<sha1hash, dimensions, format>>.                           *)
(***************************************************************************)
\* `${asset.sha1hash}-${width}x${height}.png`
fileName(asset) == <<asset.sha1hash, asset.dimensions, "png">>

\* fs.existsSync(filePath)
fileExists(asset) == fileName(asset) \in images

\* the catch block of migrateAssets
assetFailed(ms, asset, message) ==
  [ms EXCEPT !.progress.assets.failed = @ + 1,
             !.errors = Append(@, [type |-> "asset", id |-> asset._key,
                                   error |-> message])]

\* variant: a missing file is counted and logged as a failure
assetSkippedAsFailure(ms, asset) == assetFailed(ms, asset, "Asset file not found")

\* migrateAsset returned null: the iteration changes nothing
assetSkipped(ms, asset) == ms

\* migrateAsset returned the upload's result
assetMigrated(ms, asset, n) ==
  [ms EXCEPT !.assets = (asset._key :> [id |-> StrapiId(n), provider |-> "strapi"]) @@ @,
             !.progress.assets.completed = @ + 1]

\* the end of an iteration of the loop of migrateAssets
nextAsset(ms, outcome) ==
  /\ migrationState' = ms
  /\ assetOutcome' = [assetOutcome EXCEPT ![assetIdx] = outcome]
  /\ assetIdx' = assetIdx + 1
  /\ IF assetIdx = Len(assetList)
     THEN assetPc' = "done" /\ pc' = "migrateContent"
     ELSE assetPc' = "migrateAsset" /\ pc' = pc

MigrateAssets ==
  /\ pc = "migrateAssets"
  /\ assetPc = "idle"
  /\ IF Len(assetList) = 0
     THEN /\ pc' = "migrateContent"
          /\ UNCHANGED <<migrationState, assetPc>>
     ELSE /\ migrationState' = [migrationState EXCEPT !.progress.assets.total = Len(assetList)]
          /\ assetPc' = "migrateAsset"
          /\ pc' = pc
  /\ UNCHANGED <<documents, typeQueue, typeIdx, batchStart, docPc, payload, relIdx, relPc,
                 updateData, passes, strapi, rejections, docOutcome, relTrace, issued,
                 afterFirstPass, assetList, images, assetIdx, assetOutcome>>
  /\ UNCHANGED <<genVars, fnVars, runVars>>

\* migrateAsset up to the upload request; an asset without metadata makes the
\* file name expression throw
MigrateAsset ==
  /\ pc = "migrateAssets"
  /\ assetPc = "migrateAsset"
  /\ LET asset == assetList[assetIdx]
     IN IF ~asset.metadata
        THEN /\ nextAsset(assetFailed(migrationState, asset, "TypeError"), "thrown")
             /\ UNCHANGED issued
        ELSE IF ~fileExists(asset)
        THEN /\ nextAsset(assetSkipped(migrationState, asset), "skipped")
             /\ UNCHANGED issued
        ELSE /\ assetPc' = "uploading"
             /\ issued' = [issued EXCEPT !.upload = @ + 1]
             /\ UNCHANGED <<migrationState, pc, assetIdx, assetOutcome>>
  /\ UNCHANGED <<documents, typeQueue, typeIdx, batchStart, docPc, payload, relIdx, relPc,
                 updateData, passes, strapi, rejections, docOutcome, relTrace,
                 afterFirstPass, assetList, images>>
  /\ UNCHANGED <<genVars, fnVars, runVars>>

\* the store accepts the upload
UploadAccepted ==
  /\ pc = "migrateAssets"
  /\ assetPc = "uploading"
  /\ nextAsset(assetMigrated(migrationState, assetList[assetIdx], assetIdx), "uploaded")
  /\ UNCHANGED <<documents, typeQueue, typeIdx, batchStart, docPc, payload, relIdx, relPc,
                 updateData, passes, strapi, rejections, docOutcome, relTrace, issued,
                 afterFirstPass, assetList, images>>
  /\ UNCHANGED <<genVars, fnVars, runVars>>

\* variant: the rejection of an upload leaves migrateAssets and ends migrate
UploadAborts ==
  /\ pc = "migrateAssets"
  /\ assetPc = "uploading"
  /\ pc' = "failed"
  /\ UNCHANGED <<documents, migrationState, typeQueue, typeIdx, batchStart, docPc, payload,
                 relIdx, relPc, updateData, passes, strapi, rejections, docOutcome,
                 relTrace, issued, afterFirstPass, assetVars>>
  /\ UNCHANGED <<genVars, fnVars, runVars>>

\* the store rejects the upload
UploadRejected ==
  /\ pc = "migrateAssets"
  /\ assetPc = "uploading"
  /\ nextAsset(assetFailed(migrationState, assetList[assetIdx], "API Error"), "rejected")
  /\ UNCHANGED <<documents, typeQueue, typeIdx, batchStart, docPc, payload, relIdx, relPc,
                 updateData, passes, strapi, rejections, docOutcome, relTrace, issued,
                 afterFirstPass, assetList, images>>
  /\ UNCHANGED <<genVars, fnVars, runVars>>

AssetNext ==
  \/ MigrateAssets
  \/ MigrateAsset
  \/ UploadAccepted
  \/ UploadRejected

(***************************************************************************)
(* migrateContent: the batch loops.                                        *)
(***************************************************************************)
contentVars == <<typeQueue, typeIdx, batchStart>>
docVars == <<docPc, payload, docOutcome>>
relVars == <<relIdx, relPc, updateData, passes, relTrace, afterFirstPass>>

currentBatch == batchOf(documents, typeQueue[typeIdx], batchStart)

\* variant: the batch loop does not wait for its create requests
batchNotAwaited(batch) == TRUE

\* await Promise.allSettled(promises)
batchSettled(batch) == \A k \in 1..Len(batch) : docPc[batch[k]] = "settled"

MigrateContent ==
  /\ pc = "migrateContent"
  /\ migrationState' = [migrationState EXCEPT !.progress.entities.total = Len(documents)]
  /\ typeQueue' = migrateContentOrder(documents)
  /\ typeIdx' = 1
  /\ batchStart' = 0
  /\ pc' = IF typeQueue' = <<>> THEN "processPendingRelationships" ELSE "migrateBatch"
  /\ UNCHANGED <<documents, docVars, relVars, strapi, rejections, issued>>
  /\ UNCHANGED <<assetVars, genVars, fnVars, runVars>>

\* documents.map((doc) => this.migrateDocument(doc, contentType))
MigrateBatch ==
  /\ pc = "migrateBatch"
  /\ docPc' = [d \in DOMAIN docPc |->
                 IF d \in Range(currentBatch) THEN "start" ELSE docPc[d]]
  /\ pc' = "awaitBatch"
  /\ UNCHANGED <<documents, migrationState, contentVars, payload, docOutcome, relVars,
                 strapi, rejections, issued>>
  /\ UNCHANGED <<assetVars, genVars, fnVars, runVars>>

\* the batch has settled: pause and go on, or leave the loop of this type
BatchDone ==
  /\ pc = "awaitBatch"
  /\ batchSettled(currentBatch)
  /\ LET docs == groupDocumentsByType(documents)[typeQueue[typeIdx]]
     IN IF batchStart + BatchSize < Len(docs)
        THEN /\ pc' = "delay"
             /\ UNCHANGED <<typeIdx, batchStart>>
        ELSE /\ typeIdx' = typeIdx + 1
             /\ batchStart' = 0
             /\ pc' = IF typeIdx' > Len(typeQueue) THEN "processPendingRelationships"
                      ELSE "migrateBatch"
  /\ UNCHANGED <<documents, migrationState, typeQueue, docVars, relVars, strapi,
                 rejections, issued>>
  /\ UNCHANGED <<assetVars, genVars, fnVars, runVars>>

\* await this.delay(500); i += batchSize
Delay ==
  /\ pc = "delay"
  /\ batchStart' = batchStart + BatchSize
  /\ pc' = "migrateBatch"
  /\ UNCHANGED <<documents, migrationState, typeQueue, typeIdx, docVars, relVars, strapi,
                 rejections, issued>>
  /\ UNCHANGED <<assetVars, genVars, fnVars, runVars>>

(***************************************************************************)
(* migrateDocument, one call per document of the batch, interleaved at     *)
(* its awaits.                                                             *)
(***************************************************************************)
\* schema lookup and transformation, up to the create request
MigrateDocument(d) ==
  /\ docPc[d] = "start"
  /\ LET document == documents[d]
         contentType == document.type
     IN IF contentType \notin DOMAIN schemaMapping
        THEN /\ migrationState' = entityFailed(migrationState, contentType, document,
                                               "No Strapi schema found")
             /\ docPc' = [docPc EXCEPT ![d] = "settled"]
             /\ docOutcome' = [docOutcome EXCEPT ![d] = "noSchema"]
             /\ UNCHANGED <<payload, issued>>
        ELSE LET t == transformDocumentWithSchema(document, schemaMapping[contentType],
                                                  contentType, migrationState.assets)
             IN IF t.thrown
                THEN /\ migrationState' = entityFailed(migrationState, contentType,
                                                       document, "TypeError")
                     /\ docPc' = [docPc EXCEPT ![d] = "settled"]
                     /\ docOutcome' = [docOutcome EXCEPT ![d] = "thrown"]
                     /\ UNCHANGED <<payload, issued>>
                ELSE /\ migrationState' =
                          [migrationState EXCEPT !.pendingRelationships = @ \o t.rels]
                     /\ payload' = [payload EXCEPT ![d] = t.transformed]
                     /\ docPc' = [docPc EXCEPT ![d] = "posting"]
                     /\ issued' = [issued EXCEPT !.post = @ + 1]
                     /\ UNCHANGED docOutcome
  /\ UNCHANGED <<documents, pc, contentVars, relVars, strapi, rejections>>
  /\ UNCHANGED <<assetVars, genVars, fnVars, runVars>>

\* the store accepts the create request
CreateAccepted(d) ==
  /\ docPc[d] = "posting"
  /\ strapi' = Append(strapi, [contentType |-> documents[d].type, data |-> payload[d]])
  /\ migrationState' = entityCreated(migrationState, documents[d].type, documents[d],
                                     Len(strapi) + 1)
  /\ docPc' = [docPc EXCEPT ![d] = "settled"]
  /\ docOutcome' = [docOutcome EXCEPT ![d] = "accepted"]
  /\ UNCHANGED <<documents, pc, contentVars, payload, relVars, rejections, issued>>
  /\ UNCHANGED <<assetVars, genVars, fnVars, runVars>>

\* the store rejects the create request
CreateRejected(d) ==
  /\ docPc[d] = "posting"
  /\ migrationState' = entityFailed(migrationState, documents[d].type, documents[d],
                                    "API Error")
  /\ docPc' = [docPc EXCEPT ![d] = "settled"]
  /\ docOutcome' = [docOutcome EXCEPT ![d] = "rejected"]
  /\ UNCHANGED <<documents, pc, contentVars, payload, relVars, strapi, rejections, issued>>
  /\ UNCHANGED <<assetVars, genVars, fnVars, runVars>>

(***************************************************************************)
(* processPendingRelationships / processRelationship: the resolution pass, *)
(* one relationship at a time.                                             *)
(***************************************************************************)
NoTrace == [outcome |-> "none", counted |-> "none", requests |-> 0]

pendingRelationships == migrationState.pendingRelationships
relationship == pendingRelationships[relIdx]


ProcessPendingRelationships ==
  /\ pc = "processPendingRelationships"
  /\ passes' = passes + 1
  /\ IF Len(pendingRelationships) = 0
     THEN /\ pc' = IF passes' = 1 THEN "generateMigrationReport" ELSE "done"
          /\ afterFirstPass' = IF passes' = 1 THEN strapi ELSE afterFirstPass
          /\ UNCHANGED <<migrationState, relIdx, relPc, relTrace>>
     ELSE /\ migrationState' = [migrationState EXCEPT
                !.progress.relationships.total = Len(pendingRelationships)]
          /\ relIdx' = 1
          /\ relPc' = "begin"
          /\ relTrace' = [k \in 1..Len(pendingRelationships) |-> NoTrace]
          /\ pc' = "resolving"
          /\ UNCHANGED afterFirstPass
  /\ UNCHANGED <<documents, contentVars, docVars, updateData, strapi, rejections, issued>>
  /\ UNCHANGED <<assetVars, genVars, fnVars, runVars>>

\* the relationship is counted and the for-loop moves on
nextRelationship(ms, outcome, counted) ==
  /\ migrationState' = ms
  /\ relTrace' = [relTrace EXCEPT ![relIdx].outcome = outcome, ![relIdx].counted = counted]
  /\ relIdx' = relIdx + 1
  /\ relPc' = "begin"

sourceEntity == migrationState.entities[relationship.sourceId]
targetEntity == migrationState.entities[relationship.targetId]
sourceDocumentId == OrElse(sourceEntity.documentId, sourceEntity.strapiId)
targetDocumentId == OrElse(targetEntity.documentId, targetEntity.strapiId)
relEndpoint == endpoint(relationship.sourceType, sourceDocumentId)

\* the entity lookups of processRelationship: return early, or send the GET
ProcessRelationship ==
  /\ pc = "resolving" /\ relPc = "begin" /\ relIdx <= Len(pendingRelationships)
  /\ IF \/ relationship.sourceId \notin DOMAIN migrationState.entities
        \/ relationship.targetId \notin DOMAIN migrationState.entities
     THEN /\ nextRelationship(relationshipCompleted(migrationState), "skipped", "completed")
          /\ UNCHANGED issued
     ELSE /\ relPc' = "get"
          /\ issued' = [issued EXCEPT !.get = @ + 1]
          /\ relTrace' = [relTrace EXCEPT ![relIdx].requests = @ + 1]
          /\ UNCHANGED <<migrationState, relIdx>>
  /\ UNCHANGED <<documents, pc, contentVars, docVars, updateData, passes, afterFirstPass,
                 strapi, rejections>>
  /\ UNCHANGED <<assetVars, genVars, fnVars, runVars>>

\* the GET is answered: merge the relation and send the PUT
GetAnswered ==
  /\ pc = "resolving" /\ relPc = "get"
  /\ \E n \in lookup(strapi, relEndpoint) :
       updateData' = [entity |-> n,
                      data |-> mergeRelation(getResponse(strapi, n), relationship,
                                             targetDocumentId)]
  /\ relPc' = "put"
  /\ issued' = [issued EXCEPT !.put = @ + 1]
  /\ relTrace' = [relTrace EXCEPT ![relIdx].requests = @ + 1]
  /\ UNCHANGED <<documents, migrationState, pc, contentVars, docVars, relIdx, passes,
                 afterFirstPass, strapi, rejections>>
  /\ UNCHANGED <<assetVars, genVars, fnVars, runVars>>

\* the store has no such entity under the endpoint (404)
GetNotFound ==
  /\ pc = "resolving" /\ relPc = "get"
  /\ lookup(strapi, relEndpoint) = {}
  /\ nextRelationship(relationshipFailed(migrationState, relationship, "Not Found"),
                      "rejected", "failed")
  /\ UNCHANGED <<documents, pc, contentVars, docVars, updateData, passes, afterFirstPass,
                 strapi, rejections, issued>>
  /\ UNCHANGED <<assetVars, genVars, fnVars, runVars>>

\* the store rejects the GET or the PUT
RequestRejected ==
  /\ pc = "resolving" /\ relPc \in {"get", "put"}
  /\ rejections < MaxRejections
  /\ rejections' = rejections + 1
  /\ nextRelationship(relationshipFailed(migrationState, relationship, "API Error"),
                      "rejected", "failed")
  /\ UNCHANGED <<documents, pc, contentVars, docVars, updateData, passes, afterFirstPass,
                 strapi, issued>>
  /\ UNCHANGED <<assetVars, genVars, fnVars, runVars>>

\* the store applies the PUT
PutAccepted ==
  /\ pc = "resolving" /\ relPc = "put"
  /\ strapi' = putEntity(strapi, updateData.entity, updateData.data)
  /\ nextRelationship(relationshipCompleted(migrationState), "written", "completed")
  /\ UNCHANGED <<documents, pc, contentVars, docVars, updateData, passes, afterFirstPass,
                 rejections, issued>>
  /\ UNCHANGED <<assetVars, genVars, fnVars, runVars>>

\* the for-loop over pendingRelationships is exhausted
PassDone ==
  /\ pc = "resolving" /\ relPc = "begin" /\ relIdx > Len(pendingRelationships)
  /\ pc' = IF passes = 1 THEN "generateMigrationReport" ELSE "done"
  /\ relPc' = "idle"
  /\ afterFirstPass' = IF passes = 1 THEN strapi ELSE afterFirstPass
  /\ UNCHANGED <<documents, migrationState, contentVars, docVars, relIdx, updateData,
                 passes, relTrace, strapi, rejections, issued>>
  /\ UNCHANGED <<assetVars, genVars, fnVars, runVars>>

GenerateMigrationReport ==
  /\ pc = "generateMigrationReport"
  /\ pc' = "done"
  /\ UNCHANGED <<documents, migrationState, contentVars, docVars, relVars, strapi,
                 rejections, issued>>
  /\ UNCHANGED <<assetVars, genVars, fnVars, runVars>>

\* a caller runs the resolution pass a second time over the same queue, after a run
\* in which the store answered every request of the first pass
ResolveAgain ==
  /\ pc = "done"
  /\ passes = 1
  /\ rejections = 0
  /\ pc' = "processPendingRelationships"
  /\ UNCHANGED <<documents, migrationState, contentVars, docVars, relVars, strapi,
                 rejections, issued>>
  /\ UNCHANGED <<assetVars, genVars, fnVars, runVars>>

ContentNext ==
  \/ MigrateContent
  \/ MigrateBatch
  \/ BatchDone
  \/ Delay
  \/ \E d \in DOMAIN docPc : MigrateDocument(d)
  \/ \E d \in DOMAIN docPc : CreateAccepted(d)
  \/ \E d \in DOMAIN docPc : CreateRejected(d)

\* the steps of migrate(sanityExportPath) after loadSanityData
RunNext ==
  \/ AssetNext
  \/ ContentNext
  \/ ProcessPendingRelationships
  \/ ProcessRelationship
  \/ GetAnswered
  \/ GetNotFound
  \/ RequestRejected
  \/ PutAccepted
  \/ PassDone
  \/ GenerateMigrationReport

MigrateNext ==
  \/ ContentNext
  \/ ProcessPendingRelationships
  \/ ProcessRelationship
  \/ GetAnswered
  \/ GetNotFound
  \/ RequestRejected
  \/ PutAccepted
  \/ PassDone
  \/ GenerateMigrationReport
  \/ ResolveAgain

(***************************************************************************)
(* PART II.  DynamicSchemaGenerator: relationship inference.               *)
(*                                                                         *)
(* Type names are words (sequences of one-character strings), so that the  *)
(* pair key is computed from characters as the code computes it.           *)
(***************************************************************************)
\* UTF-16 code units of the characters used
CodeUnit == ("-" :> 45) @@ ("a" :> 97) @@ ("b" :> 98) @@ ("c" :> 99)

RECURSIVE StringLess(_, _, _)
\* x < y for two strings, compared by code units from position k on
StringLess(x, y, k) ==
  IF k > Len(y) THEN FALSE
  ELSE IF k > Len(x) THEN TRUE
  ELSE IF CodeUnit[x[k]] # CodeUnit[y[k]] THEN CodeUnit[x[k]] < CodeUnit[y[k]]
  ELSE StringLess(x, y, k + 1)

\* Array.prototype.sort() of a two-element array of strings
sort(pair) == IF StringLess(pair[2], pair[1], 1) THEN <<pair[2], pair[1]>> ELSE pair

\* Array.prototype.join("-") of a two-element array of strings
join(pair) == pair[1] \o <<"-">> \o pair[2]

\* variant: the pair joined in the order given
joinUnsorted(schemaA, schemaB) == join(<<schemaA, schemaB>>)

getRelationshipKey(schemaA, schemaB) == join(sort(<<schemaA, schemaB>>))

\* the type names a reference may target, and those of them that have a schema file
\* of type "document"
TypeNames == {<<"a">>, <<"c">>, <<"a", "-", "b">>, <<"b", "-", "c">>}
DocumentTypes == {<<"a">>, <<"a", "-", "b">>, <<"b", "-", "c">>}
FieldNames == <<"f", "g", "h", "k">>
NoType == <<>>

\* the field shapes extractSchemaFromContent recovers: a plain field, a reference
\* to a type, an array of references to a type
FieldShapes ==
  {[type |-> "string", to |-> NoType]}
    \cup [type : {"reference", "array"}, to : TypeNames]

\* a schema file's fields: field k is named FieldNames[k]
SchemaFields == [1..MaxFields -> FieldShapes]

\* field k of a schema file; a shape may carry the items of an array ("of") and the
\* nested fields of an object ("fields")
fieldOf(shapes, k) ==
  [key \in {"name"} \cup DOMAIN shapes[k] |->
     IF key = "name" THEN FieldNames[k] ELSE shapes[k][key]]

RECURSIVE extractReferences(_, _)
\* the loop of collectAllReferences over schema.fields, extractReferencesFromField
\* applied to each
extractReferences(fields, k) ==
  IF k > Len(fields) THEN <<>>
  ELSE (IF fields[k].type \in {"reference", "array"} /\ fields[k].to # NoType
        THEN <<[fieldName |-> fields[k].name, targetType |-> fields[k].to,
                isArray |-> (fields[k].type = "array")]>>
        ELSE <<>>)
       \o extractReferences(fields, k + 1)

RECURSIVE collectReferences(_, _)
collectReferences(all, k) ==
  IF k > Len(all) THEN <<>>
  ELSE LET references == extractReferences(all[k].fields, 1)
       IN (IF Len(references) > 0
           THEN <<[schemaName |-> all[k].name, references |-> references]>>
           ELSE <<>>)
          \o collectReferences(all, k + 1)

NoRef == [fieldName |-> "null", targetType |-> NoType, isArray |-> FALSE]

\* one iteration of the inner loop of analyzeBidirectionalRelationships
addReference(map, fromSchema, ref) ==
  LET toSchema == ref.targetType
      relationshipKey == getRelationshipKey(fromSchema, toSchema)
      has == \E i \in 1..Len(map) : map[i].key = relationshipKey
      withKey == IF has THEN map
                 ELSE Append(map, [key |-> relationshipKey, schemaA |-> fromSchema,
                                   schemaB |-> toSchema, aToB |-> NoRef, bToA |-> NoRef])
      at == CHOOSE i \in 1..Len(withKey) : withKey[i].key = relationshipKey
  IN IF fromSchema = withKey[at].schemaA
     THEN [withKey EXCEPT ![at].aToB = ref]
     ELSE [withKey EXCEPT ![at].bToA = ref]

RECURSIVE addReferences(_, _, _, _)
addReferences(map, fromSchema, references, k) ==
  IF k > Len(references) THEN map
  ELSE addReferences(addReference(map, fromSchema, references[k]),
                     fromSchema, references, k + 1)

RECURSIVE groupReferences(_, _, _)
\* the first loop of analyzeBidirectionalRelationships
groupReferences(map, all, k) ==
  IF k > Len(all) THEN map
  ELSE groupReferences(addReferences(map, all[k].schemaName, all[k].references, 1),
                       all, k + 1)

\* `api::${schema}.${schema}`
apiTarget(schema) == <<"api::">> \o schema \o <<".">> \o schema

relationConfig(relation, toSchema, mappedBy, inversedBy) ==
  [type |-> "relation", relation |-> relation, target |-> apiTarget(toSchema),
   mappedBy |-> mappedBy, inversedBy |-> inversedBy]

storeProcessedRelationship(rels, fromSchema, fieldName, toSchema, relationshipConfig) ==
  IF fromSchema \in DOMAIN rels
  THEN [rels EXCEPT ![fromSchema] = (fieldName :> relationshipConfig) @@ @]
  ELSE (fromSchema :> (fieldName :> relationshipConfig)) @@ rels

addManyToManyRelationship(rels, schemaA, fieldA, schemaB, fieldB) ==
  storeProcessedRelationship(
    storeProcessedRelationship(rels, schemaA, fieldA, schemaB,
      relationConfig("manyToMany", schemaB, fieldB, "undefined")),
    schemaB, fieldB, schemaA,
    relationConfig("manyToMany", schemaA, "undefined", fieldA))

addOneToManyRelationship(rels, oneSchema, oneField, manySchema, manyField) ==
  storeProcessedRelationship(
    storeProcessedRelationship(rels, oneSchema, oneField, manySchema,
      relationConfig("oneToMany", manySchema, manyField, "undefined")),
    manySchema, manyField, oneSchema,
    relationConfig("manyToOne", oneSchema, "undefined", oneField))

addBidirectionalOneToOneRelationship(rels, schemaA, fieldA, schemaB, fieldB) ==
  storeProcessedRelationship(
    storeProcessedRelationship(rels, schemaA, fieldA, schemaB,
      relationConfig("oneToOne", schemaB, fieldB, "undefined")),
    schemaB, fieldB, schemaA,
    relationConfig("oneToOne", schemaA, "undefined", fieldA))

addUnidirectionalOneToManyRelationship(rels, fromSchema, fieldName, toSchema) ==
  storeProcessedRelationship(rels, fromSchema, fieldName, toSchema,
    relationConfig("oneToMany", toSchema, "undefined", "undefined"))

addUnidirectionalOneToOneRelationship(rels, fromSchema, fieldName, toSchema) ==
  storeProcessedRelationship(rels, fromSchema, fieldName, toSchema,
    relationConfig("oneToOne", toSchema, "undefined", "undefined"))

\* processRelationship(relationship) of the generator
processRelationship(rels, rel) ==
  LET schemaA == rel.schemaA
      schemaB == rel.schemaB
      aToB == rel.aToB
      bToA == rel.bToA
  IN IF aToB # NoRef /\ bToA # NoRef
     THEN IF aToB.isArray /\ bToA.isArray
          THEN addManyToManyRelationship(rels, schemaA, aToB.fieldName,
                                         schemaB, bToA.fieldName)
          ELSE IF aToB.isArray /\ ~bToA.isArray
          THEN addOneToManyRelationship(rels, schemaB, bToA.fieldName,
                                        schemaA, aToB.fieldName)
          ELSE IF ~aToB.isArray /\ bToA.isArray
          THEN addOneToManyRelationship(rels, schemaA, aToB.fieldName,
                                        schemaB, bToA.fieldName)
          ELSE addBidirectionalOneToOneRelationship(rels, schemaA, aToB.fieldName,
                                                    schemaB, bToA.fieldName)
     ELSE IF aToB # NoRef /\ bToA = NoRef
     THEN IF aToB.isArray
          THEN addUnidirectionalOneToManyRelationship(rels, schemaA, aToB.fieldName,
                                                      schemaB)
          ELSE addUnidirectionalOneToOneRelationship(rels, schemaA, aToB.fieldName,
                                                     schemaB)
     ELSE IF aToB = NoRef /\ bToA # NoRef
     THEN IF bToA.isArray
          THEN addUnidirectionalOneToManyRelationship(rels, schemaB, bToA.fieldName,
                                                      schemaA)
          ELSE addUnidirectionalOneToOneRelationship(rels, schemaB, bToA.fieldName,
                                                     schemaA)
     ELSE rels

RECURSIVE processRelationships(_, _, _)
\* the second loop of analyzeBidirectionalRelationships
processRelationships(rels, map, k) ==
  IF k > Len(map) THEN rels
  ELSE processRelationships(processRelationship(rels, map[k]), map, k + 1)

\* number of reference fields of a schema file
referencesIn(shapes) == Cardinality({k \in 1..MaxFields : shapes[k].type # "string"})

RECURSIVE referenceCount(_, _)
\* number of reference fields in the schemas loaded
referenceCount(all, k) ==
  IF k > Len(all) THEN 0 ELSE referencesIn(all[k].fields) + referenceCount(all, k + 1)

\* the generator after construction
GenInit ==
  /\ schemas = <<>>
  /\ allReferences = <<>>
  /\ relationshipMap = <<>>
  /\ relationships = <<>>
  /\ genPc = "loadSanitySchemas"
  /\ parsedFiles = <<>>
  /\ singletonTypes = {}
  /\ documentCounts = <<>>
  /\ strapiSchemas = <<>>
  /\ components = <<>>

\* folder === "singletons" || folder === "singleton" || file.includes(".singleton.");
\* a file name is a sequence of pieces, a flat project has the folder ""
isSingletonFile(folder, file) ==
  \/ folder = "singletons"
  \/ folder = "singleton"
  \/ Includes(file, ".singleton.")

\* analyzeSanitySchemas: one schema file parsed and registered as a document type;
\* the files of a project define types of different names
ParseSchemaFile(name, shapes, folder, file) ==
  /\ genPc = "loadSanitySchemas"
  /\ Len(schemas) < MaxSchemas
  /\ \A i \in 1..Len(schemas) : schemas[i].name # name
  /\ referenceCount(schemas, 1) + referencesIn(shapes) <= MaxReferences
  /\ schemas' = Append(schemas, [name |-> name,
                                 fields |-> [k \in 1..MaxFields |-> fieldOf(shapes, k)]])
  /\ singletonTypes' = IF isSingletonFile(folder, file)
                       THEN singletonTypes \cup {name} ELSE singletonTypes
  /\ parsedFiles' = Append(parsedFiles, [name |-> name, folder |-> folder, file |-> file])
  /\ UNCHANGED <<allReferences, relationshipMap, relationships, genPc>>
  /\ UNCHANGED <<documentCounts, strapiSchemas, components>>
  /\ UNCHANGED <<migVars, fnVars, runVars>>

\* analyzeSanitySchemas: one schema file of type "object" parsed; it is kept in
\* this.components under the name of the type
ParseObjectFile(name, folder, file) ==
  /\ genPc = "loadSanitySchemas"
  /\ <<name>> \notin DOMAIN components
  /\ components' = (<<name>> :> [name |-> <<name>>, type |-> "object"]) @@ components
  /\ singletonTypes' = IF isSingletonFile(folder, file)
                       THEN singletonTypes \cup {<<name>>} ELSE singletonTypes
  /\ parsedFiles' = Append(parsedFiles, [name |-> <<name>>, folder |-> folder, file |-> file])
  /\ UNCHANGED <<schemas, allReferences, relationshipMap, relationships, genPc>>
  /\ UNCHANGED <<documentCounts, strapiSchemas>>
  /\ UNCHANGED <<migVars, fnVars, runVars>>

\* doc._type.startsWith("sanity.")
isSystemType(type) == Len(type) > 0 /\ type[1] = "sanity."

RECURSIVE typeCount(_, _, _)
\* the typeCount object analyzeExportedData builds from the lines of data.ndjson
typeCount(lines, k, counts) ==
  IF k > Len(lines) THEN counts
  ELSE IF isSystemType(lines[k]) THEN typeCount(lines, k + 1, counts)
  ELSE typeCount(lines, k + 1,
                 IF lines[k] \in DOMAIN counts
                 THEN [counts EXCEPT ![lines[k]] = @ + 1]
                 ELSE (lines[k] :> 1) @@ counts)

\* variant: a type with one document is put on the allowlist
singletonsByCount(singletons, counts) ==
  singletons \cup {type \in DOMAIN counts : counts[type] = 1}

\* the allowlist after the forEach of analyzeExportedData, which only logs
singletonsAfterAnalysis(singletons, counts) == singletons

NoExport == <<<<"ENOENT">>>>

\* analyzeExportedData(exportedDataPath); lines holds the _type of each document of
\* data.ndjson, NoExport stands for a path without data.ndjson
AnalyzeExportedData(lines) ==
  /\ genPc = "loadSanitySchemas"
  /\ IF lines = NoExport
     THEN UNCHANGED <<documentCounts, singletonTypes>>
     ELSE LET counts == typeCount(lines, 1, <<>>)
          IN /\ documentCounts' = counts @@ documentCounts
             /\ singletonTypes' = singletonsAfterAnalysis(singletonTypes, counts)
  /\ genPc' = "collectAllReferences"
  /\ UNCHANGED <<schemas, allReferences, relationshipMap, relationships>>
  /\ UNCHANGED <<parsedFiles, strapiSchemas, components>>
  /\ UNCHANGED <<migVars, fnVars, runVars>>

CollectAllReferences ==
  /\ genPc = "collectAllReferences"
  /\ allReferences' = collectReferences(schemas, 1)
  /\ genPc' = "analyzeBidirectionalRelationships"
  /\ UNCHANGED <<schemas, relationshipMap, relationships, kindVars>>
  /\ UNCHANGED <<migVars, fnVars, runVars>>

AnalyzeBidirectionalRelationships ==
  /\ genPc = "analyzeBidirectionalRelationships"
  /\ relationshipMap' = groupReferences(<<>>, allReferences, 1)
  /\ relationships' = processRelationships(relationships, relationshipMap', 1)
  /\ genPc' = "generateStrapiSchemas"
  /\ UNCHANGED <<schemas, allReferences, kindVars>>
  /\ UNCHANGED <<migVars, fnVars, runVars>>

\* this.typeMapping[fieldType] || "string"; the entry of "array" is a function
typeMapping(fieldType) ==
  CASE fieldType \in {"string", "email", "url"} -> "string"
    [] fieldType \in {"text", "boolean", "datetime", "date"} -> fieldType
    [] fieldType = "number" -> "decimal"
    [] fieldType = "slug" -> "uid"
    [] fieldType \in {"image", "file"} -> "media"
    [] fieldType = "reference" -> "relation"
    [] fieldType = "array" -> "function"
    [] fieldType = "object" -> "component"
    [] fieldType = "block" -> "blocks"
    [] OTHER -> "string"

Media(multiple) == [type |-> "media", multiple |-> multiple]

convertNestedField(field) ==
  IF field.type \in {"image", "file"} THEN Media(FALSE)
  ELSE [type |-> typeMapping(field.type)]

\* `${category}.${componentName}` of a field name, as a word
getComponentKey(fieldName) ==
  singularize(<<fieldName>>) \o <<".">> \o pluralize(<<fieldName>>)

Component(fieldName, attributes) ==
  [collectionName |-> <<"components_">> \o singularize(<<fieldName>>) \o <<"_">>
                        \o pluralize(pluralize(<<fieldName>>)),
   displayName |-> singularize(<<fieldName>>),
   attributes |-> attributes]

\* the component createStringArrayComponent stores under the component key
createStringArrayComponent(fieldName) ==
  Component(fieldName, [name |-> [type |-> "string"]])

\* the component createObjectComponent stores under the component key
createObjectComponent(field) ==
  Component(field.name,
            IF "fields" \in DOMAIN field
            THEN [n \in {field.fields[k].name : k \in 1..Len(field.fields)} |->
                    convertNestedField(
                      field.fields[CHOOSE k \in 1..Len(field.fields) :
                                     /\ field.fields[k].name = n
                                     /\ \A j \in k + 1..Len(field.fields) :
                                          field.fields[j].name # n])]
            ELSE [data |-> [type |-> "json"]])

ComponentField(repeatable, fieldName) ==
  [type |-> "component", repeatable |-> repeatable, component |-> getComponentKey(fieldName)]

\* handleArrayField below its relationship lookup; known is this.components
handleArrayField(field, known) ==
  IF "of" \notin DOMAIN field \/ Len(field.of) = 0 THEN [type |-> "json"]
  ELSE IF \E k \in 1..Len(field.of) : field.of[k] = "reference" THEN [type |-> "json"]
  ELSE IF \E k \in 1..Len(field.of) : field.of[k] \in {"image", "file"} THEN Media(TRUE)
  ELSE IF field.of[1] = "string" THEN ComponentField(TRUE, field.name)
  ELSE IF field.of[1] = "block" THEN [type |-> "blocks"]
  ELSE IF field.of[1] = "object" \/ <<field.of[1]>> \in DOMAIN known
       THEN ComponentField(TRUE, field.name)
  ELSE [type |-> "json"]

\* convertField with handleArrayField and handleObjectField: the attribute returned
convertFieldWith(field, parentSchemaName, known) ==
  IF /\ parentSchemaName \in DOMAIN relationships
     /\ field.name \in DOMAIN relationships[parentSchemaName]
  THEN relationships[parentSchemaName][field.name]
  ELSE IF field.type = "slug" THEN [type |-> "uid"]
  ELSE IF field.type = "array" THEN handleArrayField(field, known)
  ELSE IF field.type = "object" THEN ComponentField(FALSE, field.name)
  ELSE IF field.type \in {"image", "file"} THEN Media(FALSE)
  ELSE [type |-> typeMapping(field.type)]

convertField(field, parentSchemaName) == convertFieldWith(field, parentSchemaName, components)

\* this.components after convertField(field, parentSchemaName)
componentsAfterField(known, field, parentSchemaName) ==
  IF /\ parentSchemaName \in DOMAIN relationships
     /\ field.name \in DOMAIN relationships[parentSchemaName]
  THEN known
  ELSE IF field.type = "array" /\ handleArrayField(field, known) = ComponentField(TRUE, field.name)
          /\ field.of[1] = "string"
  THEN (getComponentKey(field.name) :> createStringArrayComponent(field.name)) @@ known
  ELSE IF field.type = "object"
  THEN (getComponentKey(field.name) :> createObjectComponent(field)) @@ known
  ELSE known

RECURSIVE componentsAfterFields(_, _, _, _)
componentsAfterFields(known, fields, parentSchemaName, k) ==
  IF k > Len(fields) THEN known
  ELSE componentsAfterFields(componentsAfterField(known, fields[k], parentSchemaName),
                             fields, parentSchemaName, k + 1)

RECURSIVE componentsAfterSchemas(_, _)
\* this.components after the first k - 1 schemas were converted
componentsAfterSchemas(known, k) ==
  IF k > Len(schemas) THEN known
  ELSE componentsAfterSchemas(
         componentsAfterFields(known, schemas[k].fields, schemas[k].name, 1), k + 1)

convertToStrapiSchema(sanitySchema) ==
  LET isSingleton == sanitySchema.name \in singletonTypes
      documentCount == IF sanitySchema.name \in DOMAIN documentCounts
                       THEN documentCounts[sanitySchema.name] ELSE 0
  IN [kind |-> IF isSingleton THEN "singleType" ELSE "collectionType",
      collectionName |-> IF isSingleton THEN sanitySchema.name
                         ELSE pluralize(sanitySchema.name),
      singularName |-> sanitySchema.name,
      pluralName |-> pluralize(sanitySchema.name),
      documentCount |-> documentCount,
      attributes |-> [f \in {sanitySchema.fields[k].name : k \in 1..Len(sanitySchema.fields)} |->
                        convertField(
                          sanitySchema.fields[CHOOSE k \in 1..Len(sanitySchema.fields) :
                                                sanitySchema.fields[k].name = f],
                          sanitySchema.name)]]

\* the first loop of generateStrapiSchemas: one schema.json per recovered schema
WriteStrapiSchemas ==
  /\ genPc = "generateStrapiSchemas"
  /\ strapiSchemas' = [name \in {schemas[i].name : i \in 1..Len(schemas)} |->
                         convertToStrapiSchema(
                           schemas[CHOOSE i \in 1..Len(schemas) : schemas[i].name = name])]
  /\ components' = componentsAfterSchemas(components, 1)
  /\ genPc' = "generateReport"
  /\ UNCHANGED <<schemas, allReferences, relationshipMap, relationships>>
  /\ UNCHANGED <<parsedFiles, singletonTypes, documentCounts>>
  /\ UNCHANGED <<migVars, fnVars, runVars>>

\* the schema files of a flat project, none marked as singleton
PlainFile == <<"schema", ".ts">>
Folders == {"", "documents", "singletons", "singleton"}
FileNames == {PlainFile, <<"schema", ".singleton.", "ts">>, <<"singleton", ".ts">>}
PlainFields == [k \in 1..MaxFields |-> [type |-> "string", to |-> NoType]]

\* the _type of each line of data.ndjson
ExportLines ==
  BoundedSeq(DocumentTypes \cup {<<"sanity.", "imageAsset">>}, MaxLines) \cup {NoExport}

GenNext ==
  \/ \E name \in DocumentTypes, shapes \in SchemaFields :
       ParseSchemaFile(name, shapes, "", PlainFile)
  \/ AnalyzeExportedData(NoExport)
  \/ CollectAllReferences
  \/ AnalyzeBidirectionalRelationships

\* the shapes of FieldShapes and a reference or array whose target extractReferenceTo
\* or extractArrayOf did not recover
DeclaredShapes == FieldShapes \cup [type : {"reference", "array"}, to : {NoType}]
DeclaredFields == [1..MaxFields -> DeclaredShapes]

\* the document types of a project of two schema files
DeclaredTypes == {<<"a">>, <<"a", "-", "b">>}

\* generateFromSanityProject for schemas with reference fields
SchemaNext ==
  \/ \E name \in DeclaredTypes, shapes \in DeclaredFields :
       ParseSchemaFile(name, shapes, "", PlainFile)
  \/ AnalyzeExportedData(NoExport)
  \/ CollectAllReferences
  \/ AnalyzeBidirectionalRelationships
  \/ WriteStrapiSchemas

\* the nested fields extractNestedFields recovers from an object field
NestedTypes == {"string", "reference", "image"}
NestedFields ==
  {<<[name |-> "n", type |-> t]>> : t \in NestedTypes}
    \cup {<<[name |-> "n", type |-> t], [name |-> "m", type |-> u]>> :
            t \in {"string"}, u \in NestedTypes}

\* the types of object that have a schema file of their own
ObjectTypes == {"chip"}

\* the items extractArrayOf recovers from an array field
ArrayItems ==
  {<<>>, <<"string">>, <<"object">>, <<"block">>, <<"image">>, <<"chip">>, <<"number">>,
   <<"string", "reference">>}

\* fields that become components or stay plain
ComponentShapes ==
  {[type |-> "string", to |-> NoType], [type |-> "object", to |-> NoType],
   [type |-> "array", to |-> NoType]}
    \cup {[type |-> "object", to |-> NoType, fields |-> nested] : nested \in NestedFields}
    \cup {[type |-> "array", to |-> NoType, of |-> items] : items \in ArrayItems}

\* generateFromSanityProject for one schema file with object and array fields and,
\* possibly, the schema file of an object type
ComponentNext ==
  \/ \E shapes \in [1..MaxFields -> ComponentShapes] :
       ParseSchemaFile(<<"a">>, shapes, "", PlainFile)
  \/ \E name \in ObjectTypes : ParseObjectFile(name, "", PlainFile)
  \/ AnalyzeExportedData(NoExport)
  \/ CollectAllReferences
  \/ AnalyzeBidirectionalRelationships
  \/ WriteStrapiSchemas

\* generateFromSanityProject for schemas without reference fields
KindNext ==
  \/ \E name \in DocumentTypes, folder \in Folders, file \in FileNames :
       ParseSchemaFile(name, PlainFields, folder, file)
  \/ \E lines \in ExportLines : AnalyzeExportedData(lines)
  \/ CollectAllReferences
  \/ AnalyzeBidirectionalRelationships
  \/ WriteStrapiSchemas

(***************************************************************************)
(* PART III.  The string utilities as pure functions over bounded words.   *)
(***************************************************************************)
WordLetters == {"a", "e", "g", "p", "s", "y"}
Words == UNION {[1..n -> WordLetters] : n \in 1..MaxWordLen}

NameLetters == {"-", "a", "b"}
Names == UNION {[1..n -> NameLetters] : n \in 1..MaxNameLen}

\* no call made
FnIdle ==
  /\ input = <<>>
  /\ other = <<>>
  /\ result = <<>>
  /\ fnPc = "idle"

WordInit ==
  /\ input \in Words
  /\ other = <<>>
  /\ result = <<>>
  /\ fnPc = "word"

\* p = pluralize(w)
Pluralize ==
  /\ fnPc = "word"
  /\ result' = <<pluralize(input)>>
  /\ fnPc' = "pluralized"
  /\ UNCHANGED <<input, other>>
  /\ UNCHANGED <<migVars, genVars, runVars>>

\* singularize(p)
Singularize ==
  /\ fnPc = "pluralized"
  /\ result' = Append(result, singularize(result[1]))
  /\ fnPc' = "singularized"
  /\ UNCHANGED <<input, other>>
  /\ UNCHANGED <<migVars, genVars, runVars>>

\* pluralize(singularize(p))
PluralizeAgain ==
  /\ fnPc = "singularized"
  /\ result' = Append(result, pluralize(result[2]))
  /\ fnPc' = "pluralizedAgain"
  /\ UNCHANGED <<input, other>>
  /\ UNCHANGED <<migVars, genVars, runVars>>

WordNext ==
  \/ Pluralize
  \/ Singularize
  \/ PluralizeAgain

KeyInit ==
  /\ input \in Names
  /\ other \in Names
  /\ result = <<>>
  /\ fnPc = "names"

\* getRelationshipKey(word, other)
KeyOfPair ==
  /\ fnPc = "names"
  /\ result' = <<getRelationshipKey(input, other)>>
  /\ fnPc' = "key"
  /\ UNCHANGED <<input, other>>
  /\ UNCHANGED <<migVars, genVars, runVars>>

\* getRelationshipKey(other, word)
KeyOfSwappedPair ==
  /\ fnPc = "key"
  /\ result' = Append(result, getRelationshipKey(other, input))
  /\ fnPc' = "keys"
  /\ UNCHANGED <<input, other>>
  /\ UNCHANGED <<migVars, genVars, runVars>>

KeyNext ==
  \/ KeyOfPair
  \/ KeyOfSwappedPair

(***************************************************************************)
(* Rich text: convertSanityBlockToStrapiBlock and convertSpansToStrapiText. *)
(* A style is the sequence of its characters; an absent style and an absent *)
(* marks list are the empty sequence, which the code treats alike.          *)
(***************************************************************************)
NaN == 0 - 1

Digits == <<"0", "1", "2", "3", "4", "5", "6", "7", "8", "9">>

\* parseInt of one character
parseInt(char) ==
  IF \E k \in 1..Len(Digits) : Digits[k] = char
  THEN (CHOOSE k \in 1..Len(Digits) : Digits[k] = char) - 1
  ELSE NaN

Blockquote == <<"b", "l", "o", "c", "k", "q", "u", "o", "t", "e">>

Normal == <<"n", "o", "r", "m", "a", "l">>

Styles ==
  {<<>>, Normal, Blockquote, <<"h">>, <<"h", "0">>, <<"h", "2">>, <<"h", "6">>,
   <<"h", "r">>, <<"h", "1", "0">>, <<"H", "2">>}

Marks == {"strong", "em", "underline", "strike-through", "code", "k1", "k2"}

\* the markDefs of a block; the keys of an array are unique in a Sanity document
MarkDefLists ==
  {<<>>,
   <<[key |-> "k1", type |-> "link", href |-> "u1"]>>,
   <<[key |-> "k1", type |-> "note", href |-> "u1"]>>,
   <<[key |-> "k2", type |-> "note", href |-> "u2"],
     [key |-> "k1", type |-> "link", href |-> "u1"]>>}

Spans == [text : {"Hi"}, marks : BoundedSeq(Marks, MaxMarks)]

Blocks ==
  [style : Styles, children : {<<>>} \cup {<<span>> : span \in Spans},
   markDefs : MarkDefLists]

\* markDefs.find((def) => def._key === mark), <<>> when there is none
find(markDefs, mark) ==
  IF \E k \in 1..Len(markDefs) : markDefs[k].key = mark
  THEN <<markDefs[CHOOSE k \in 1..Len(markDefs) :
                    /\ markDefs[k].key = mark
                    /\ \A j \in 1..(k - 1) : markDefs[j].key # mark]>>
  ELSE <<>>

RECURSIVE convertSpan(_, _, _, _)
\* the body of the map of convertSpansToStrapiText from the k-th mark on
convertSpan(span, markDefs, k, textNode) ==
  IF k > Len(span.marks) THEN textNode
  ELSE LET mark == span.marks[k]
           flagged == [textNode EXCEPT
                         !.bold = @ \/ mark = "strong",
                         !.italic = @ \/ mark = "em",
                         !.underline = @ \/ mark = "underline",
                         !.strikethrough = @ \/ mark = "strike-through",
                         !.code = @ \/ mark = "code"]
           markDef == find(markDefs, mark)
       IN IF markDef # <<>> /\ markDef[1].type = "link"
          THEN [type |-> "link", url |-> markDef[1].href,
                children |-> <<[type |-> "text", text |-> span.text]>>]
          ELSE convertSpan(span, markDefs, k + 1, flagged)

\* variant: only the first mark of a span is looked up in markDefs
convertSpansLinkFirst(spans, markDefs) ==
  [k \in 1..Len(spans) |->
     LET textNode == [type |-> "text", text |-> spans[k].text, bold |-> FALSE,
                      italic |-> FALSE, underline |-> FALSE, strikethrough |-> FALSE,
                      code |-> FALSE]
         first == IF Len(spans[k].marks) > 0
                  THEN find(markDefs, spans[k].marks[1]) ELSE <<>>
     IN IF first # <<>> /\ first[1].type = "link"
        THEN convertSpan(spans[k], markDefs, 1, textNode)
        ELSE convertSpan(spans[k], <<>>, 1, textNode)]

convertSpansToStrapiText(spans, markDefs) ==
  [k \in 1..Len(spans) |->
     convertSpan(spans[k], markDefs, 1,
                 [type |-> "text", text |-> spans[k].text, bold |-> FALSE,
                  italic |-> FALSE, underline |-> FALSE, strikethrough |-> FALSE,
                  code |-> FALSE])]

convertSanityBlockToStrapiBlock(sanityBlock) ==
  LET style == sanityBlock.style
      children == sanityBlock.children
      markDefs == sanityBlock.markDefs
  IN IF Len(style) > 0 /\ style[1] = "h" /\ Len(style) = 2
     THEN [type |-> "heading", level |-> parseInt(style[2]),
           children |-> convertSpansToStrapiText(children, markDefs)]
     ELSE IF style = Blockquote
     THEN [type |-> "quote", level |-> NaN,
           children |-> convertSpansToStrapiText(children, markDefs)]
     ELSE [type |-> "paragraph", level |-> NaN,
           children |-> convertSpansToStrapiText(children, markDefs)]

(***************************************************************************)
(* transformMediaField applied to a raw value under an asset map.          *)
(***************************************************************************)
MediaItems == {Image("h1"), Image("h2"), ExportedImage("h1"), File("h1"), InlineObject}

MediaValues ==
  {Single(item) : item \in MediaItems}
    \cup {Array(items) : items \in BoundedSeq(MediaItems, MaxMedia)}
    \cup {Str}

\* migrationState.assets after the asset phase: nothing, or the asset h1 uploaded
AssetMaps == {<<>>, "h1" :> [id |-> StrapiId(1), provider |-> "strapi"]}

MediaInit ==
  /\ input \in MediaValues
  /\ other \in [cfg : [type : {"media"}, multiple : BOOLEAN], assets : AssetMaps]
  /\ result = <<>>
  /\ fnPc = "media"

TransformMediaField ==
  /\ fnPc = "media"
  /\ result' = <<transformMediaField(input, other.cfg, other.assets)>>
  /\ fnPc' = "transformed"
  /\ UNCHANGED <<input, other>>
  /\ UNCHANGED <<migVars, genVars, runVars>>

MediaNext == TransformMediaField

BlockInit ==
  /\ input \in Blocks
  /\ other = <<>>
  /\ result = <<>>
  /\ fnPc = "block"

ConvertBlock ==
  /\ fnPc = "block"
  /\ result' = <<convertSanityBlockToStrapiBlock(input)>>
  /\ fnPc' = "converted"
  /\ UNCHANGED <<input, other>>
  /\ UNCHANGED <<migVars, genVars, runVars>>

BlockNext == ConvertBlock

(***************************************************************************)
(* PART IV.  The two command lines: runFromCLI of migration-runner.js and   *)
(* the commander program of cli.js.  An invocation is the argument list     *)
(* after the script name and the environment it finds: whether              *)
(* STRAPI_API_TOKEN is set, which of the directories and files exist, the   *)
(* asset provider and whether a Cloudinary cloud name is set.  The runner   *)
(* records the phases it completed and the kinds of write it performed.     *)
(***************************************************************************)
RunnerArgs ==
  {<<>>, <<"migrate">>, <<"schemas-only">>, <<"content-only">>, <<"analyze">>,
   <<"migrate", "--generateSchemas">>}

\* arguments of the commander program; <<"--verbose">> selects the default command
CliArgs ==
  {<<>>, <<"analyze">>, <<"schemas">>, <<"content">>, <<"migrate">>, <<"--verbose">>}

\* the values of STRAPI_PROJECT_PATH: unset, or the path of a project
StrapiProjectPaths == {"undefined", "./cms"}

Environments ==
  [token : BOOLEAN, exportDir : BOOLEAN, dataFile : BOOLEAN,
   projectDir : BOOLEAN, strapiDir : BOOLEAN,
   assetProvider : {"strapi", "cloudinary"}, cloudName : BOOLEAN,
   STRAPI_PROJECT_PATH : StrapiProjectPaths]

\* data.ndjson lies in the export directory; a cloud name matters for cloudinary only
possible(env) ==
  /\ env.dataFile => env.exportDir
  /\ env.cloudName => env.assetProvider = "cloudinary"

Invocations ==
  {[program |-> p, args |-> a, env |-> e] :
     p \in {"migration-runner"}, a \in RunnerArgs, e \in {x \in Environments : possible(x)}}
  \cup
  {[program |-> p, args |-> a, env |-> e] :
     p \in {"cli"}, a \in CliArgs, e \in {x \in Environments : possible(x)}}

\* the default of strapiProjectPath in both command lines and both constructors
DefaultStrapiProjectPath == "../strapi-project"

\* const strapiProjectPath = "../strapi-project" of generateStrapiSchemas
strapiProjectPath == "../strapi-project"

\* process.env.STRAPI_PROJECT_PATH || "../strapi-project"
envStrapiProjectPath ==
  IF invocation.env.STRAPI_PROJECT_PATH # "undefined"
  THEN invocation.env.STRAPI_PROJECT_PATH ELSE DefaultStrapiProjectPath

Unconfigured ==
  [generateSchemas |-> FALSE, migrateContent |-> FALSE, apiToken |-> FALSE,
   strapiProjectPath |-> DefaultStrapiProjectPath]

NoCommand ==
  /\ invocation = [program |-> "none", args |-> <<>>]
  /\ runner = [pc |-> "idle"]

CliInit ==
  /\ invocation \in Invocations
  /\ runner = [pc |-> "start", config |-> Unconfigured, phases |-> <<>>,
               writes |-> {}, fatal |-> FALSE, schemasAt |-> {}, mappingFrom |-> {}]

\* process.argv.includes(name)
argvIncludes(name) == Includes(invocation.args, name)

\* The constructor of UniversalMigrationRunner applied to a configuration
\* object, a function from the keys that are set to their values.
UniversalMigrationRunner(config) ==
  [generateSchemas |->
     IF "generateSchemas" \in DOMAIN config THEN config.generateSchemas = TRUE ELSE FALSE,
   migrateContent |->
     IF "migrateContent" \in DOMAIN config THEN config.migrateContent # FALSE ELSE TRUE,
   apiToken |->
     IF "apiToken" \in DOMAIN config /\ config.apiToken THEN TRUE ELSE invocation.env.token,
   strapiProjectPath |->
     IF "strapiProjectPath" \in DOMAIN config THEN config.strapiProjectPath
     ELSE DefaultStrapiProjectPath]

\* The configuration object of runFromCLI: the token falls back to a built-in
\* value, and every "--key" argument not followed by a value sets key to true.
flagNames(args) ==
  IF Len(args) >= 2 /\ args[2] = "--generateSchemas" THEN {"generateSchemas"} ELSE {}

runFromCLIConfig(args) ==
  [key \in {"apiToken", "strapiProjectPath"} \cup flagNames(args) |->
     IF key = "strapiProjectPath" THEN envStrapiProjectPath ELSE TRUE]

\* getConfig of cli.js: the token is set only when the environment holds one
getConfig ==
  [key \in {"strapiProjectPath"} \cup (IF invocation.env.token THEN {"apiToken"} ELSE {}) |->
     IF key = "strapiProjectPath" THEN envStrapiProjectPath ELSE TRUE]

\* migrateCommand: {...config, generateSchemas: true, migrateContent: true}
migrateCommandConfig(config) ==
  [key \in DOMAIN config \cup {"generateSchemas", "migrateContent"} |->
     IF key \in {"generateSchemas", "migrateContent"} THEN TRUE ELSE config[key]]

\* the command commander selects: the first argument that is not an option
commandOf(args) ==
  IF Len(args) > 0 /\ args[1] \in {"analyze", "schemas", "content", "migrate"}
  THEN args[1] ELSE "migrate"

fatalError == [runner EXCEPT !.pc = "finished", !.fatal = TRUE]

\* runFromCLI: builds the configuration, constructs the runner from it and
\* only then, for 'schemas-only' and 'content-only', assigns to the local
\* configuration object, which the runner no longer reads.
RunFromCLI ==
  /\ invocation.program = "migration-runner"
  /\ runner.pc = "start"
  /\ LET args == invocation.args
         command == IF Len(args) > 0 THEN args[1] ELSE "migrate"
         config == runFromCLIConfig(args)
         constructed == UniversalMigrationRunner(config)
     IN runner' = [runner EXCEPT
                     !.config = constructed,
                     !.pc = IF command = "analyze" THEN "analyzeMigration"
                            ELSE "validatePaths"]
  /\ UNCHANGED invocation
  /\ UNCHANGED <<migVars, genVars, fnVars>>

\* cli.js: help without arguments, otherwise getConfig and the command's action
CliCommand ==
  /\ invocation.program = "cli"
  /\ runner.pc = "start"
  /\ LET args == invocation.args
         command == commandOf(args)
         config == getConfig
     IN runner' =
          IF Len(args) = 0 THEN [runner EXCEPT !.pc = "finished"]
          ELSE IF command = "analyze"
               THEN [runner EXCEPT !.config = UniversalMigrationRunner(config),
                                   !.pc = "analyzeMigration"]
          ELSE IF command = "schemas"
               THEN [runner EXCEPT !.pc = "schemasCommand"]
          ELSE IF command = "content"
               THEN [runner EXCEPT !.config.apiToken = "apiToken" \in DOMAIN config,
                                   !.config.migrateContent = TRUE,
                                   !.config.strapiProjectPath = config.strapiProjectPath,
                                   !.pc = "contentCommand"]
          ELSE [runner EXCEPT
                  !.config = UniversalMigrationRunner(migrateCommandConfig(config)),
                  !.pc = "validatePaths"]
  /\ UNCHANGED invocation
  /\ UNCHANGED <<migVars, genVars, fnVars>>

\* validatePaths of the runner: TRUE when it throws
pathsInvalid ==
  LET env == invocation.env IN
  \/ ~env.exportDir
  \/ (argvIncludes("schemas") \/ argvIncludes("migrate")) /\ ~env.projectDir
  \/ (argvIncludes("content") \/ argvIncludes("migrate")) /\ ~env.strapiDir
  \/ ~env.dataFile

\* validateConfig of the runner: TRUE when it throws
configInvalid ==
  \/ (argvIncludes("content") \/ argvIncludes("migrate")) /\ ~runner.config.apiToken
  \/ invocation.env.assetProvider = "cloudinary" /\ ~invocation.env.cloudName

ValidatePaths ==
  /\ runner.pc = "validatePaths"
  /\ runner' = IF pathsInvalid THEN fatalError
               ELSE [runner EXCEPT !.pc = "validateConfig"]
  /\ UNCHANGED invocation
  /\ UNCHANGED <<migVars, genVars, fnVars>>

ValidateConfig ==
  /\ runner.pc = "validateConfig"
  /\ runner' = IF configInvalid THEN fatalError
               ELSE [runner EXCEPT !.pc = "generateSchemas"]
  /\ UNCHANGED invocation
  /\ UNCHANGED <<migVars, genVars, fnVars>>

\* generateFromSanityProject: throws before writing when the project has no
\* schemaTypes directory, otherwise writes the schema and component files under
\* strapiProjectPath, and the report
generated(next) ==
  IF ~invocation.env.projectDir THEN fatalError
  ELSE [runner EXCEPT !.phases = Append(@, "schemas"),
                      !.writes = @ \cup {"schema"},
                      !.schemasAt = @ \cup {strapiProjectPath},
                      !.pc = next]

\* migrate of the content migrator: throws when data.ndjson is missing,
\* otherwise uploads the assets (with cloudinary only under a cloud name),
\* loads the schema mapping from the project of its configuration, creates the
\* entities, patches the relationships and writes the report
uploads ==
  IF invocation.env.assetProvider = "cloudinary" /\ ~invocation.env.cloudName
  THEN {} ELSE {"upload"}

migrated(next) ==
  IF ~invocation.env.dataFile THEN fatalError
  ELSE [runner EXCEPT !.phases = Append(@, "content"),
                      !.writes = @ \cup uploads \cup {"create", "patch"},
                      !.mappingFrom = @ \cup {runner.config.strapiProjectPath},
                      !.pc = next]

\* run(), step 1
GenerateSchemas ==
  /\ runner.pc = "generateSchemas"
  /\ runner' = IF runner.config.generateSchemas THEN generated("migrateContent")
               ELSE [runner EXCEPT !.pc = "migrateContent"]
  /\ UNCHANGED invocation
  /\ UNCHANGED <<migVars, genVars, fnVars>>

\* run(), step 2
MigrateContentStep ==
  /\ runner.pc = "migrateContent"
  /\ runner' = IF runner.config.migrateContent THEN migrated("finished")
               ELSE [runner EXCEPT !.pc = "finished"]
  /\ UNCHANGED invocation
  /\ UNCHANGED <<migVars, genVars, fnVars>>

\* analyzeMigration: validatePaths, then reads only
AnalyzeMigration ==
  /\ runner.pc = "analyzeMigration"
  /\ runner' = IF pathsInvalid THEN fatalError
               ELSE [runner EXCEPT !.pc = "finished"]
  /\ UNCHANGED invocation
  /\ UNCHANGED <<migVars, genVars, fnVars>>

SchemasCommand ==
  /\ runner.pc = "schemasCommand"
  /\ runner' = generated("finished")
  /\ UNCHANGED invocation
  /\ UNCHANGED <<migVars, genVars, fnVars>>

ContentCommand ==
  /\ runner.pc = "contentCommand"
  /\ runner' = migrated("finished")
  /\ UNCHANGED invocation
  /\ UNCHANGED <<migVars, genVars, fnVars>>

CliNext ==
  \/ RunFromCLI
  \/ CliCommand
  \/ ValidatePaths
  \/ ValidateConfig
  \/ GenerateSchemas
  \/ MigrateContentStep
  \/ AnalyzeMigration
  \/ SchemasCommand
  \/ ContentCommand

(***************************************************************************)
(* Specifications.                                                         *)
(***************************************************************************)
\* migrateContent(documents)
ContentInit == MigInit(BoundedSeq(SourceDocuments, MaxDocs)) /\ GenInit /\ FnIdle /\ NoCommand
ContentSpec == ContentInit /\ [][ContentNext]_vars

\* migrate(sanityExportPath), and a second call of processPendingRelationships
MigrateInit == MigInit(Exports(RelatedDocuments, MaxRunDocs)) /\ GenInit /\ FnIdle /\ NoCommand
MigrateSpec == MigrateInit /\ [][MigrateNext]_vars

\* migrate(sanityExportPath) from migrateAssets on; a step that can be taken is
\* taken in the end: the event loop runs every continuation that is ready, and every
\* request to the store settles
RunInit ==
  /\ MigrateInitial({<<>>, RunDocuments}, AssetLists(MaxAssets), {ImageFiles},
                    "migrateAssets")
  /\ GenInit
  /\ FnIdle
  /\ NoCommand
RunSpec == RunInit /\ [][RunNext]_vars /\ WF_vars(RunNext)

\* analyzeSanitySchemas, collectAllReferences, analyzeBidirectionalRelationships
InferenceInit == MigInit({<<>>}) /\ GenInit /\ FnIdle /\ NoCommand
InferenceSpec == InferenceInit /\ [][GenNext]_vars

\* generateFromSanityProject: recovery, export analysis, schema files written
KindInit == MigInit({<<>>}) /\ GenInit /\ FnIdle /\ NoCommand
KindSpec == KindInit /\ [][KindNext]_vars

\* generateFromSanityProject: recovery, inference, schema files written
SchemaSpecInit == MigInit({<<>>}) /\ GenInit /\ FnIdle /\ NoCommand
SchemaSpec == SchemaSpecInit /\ [][SchemaNext]_vars

\* generateFromSanityProject: object and array fields, component files written
ComponentSpecInit == MigInit({<<>>}) /\ GenInit /\ FnIdle /\ NoCommand
ComponentSpec == ComponentSpecInit /\ [][ComponentNext]_vars

\* convertSanityBlockToStrapiBlock applied to a block
BlockSpecInit == MigInit({<<>>}) /\ GenInit /\ BlockInit /\ NoCommand
BlockSpec == BlockSpecInit /\ [][BlockNext]_vars

\* transformMediaField applied to a raw value
MediaSpecInit == MigInit({<<>>}) /\ GenInit /\ MediaInit /\ NoCommand
MediaSpec == MediaSpecInit /\ [][MediaNext]_vars

\* pluralize and singularize applied in turn to a word
WordSpecInit == MigInit({<<>>}) /\ GenInit /\ WordInit /\ NoCommand
WordSpec == WordSpecInit /\ [][WordNext]_vars

\* getRelationshipKey applied to a pair of names and to the swapped pair
KeySpecInit == MigInit({<<>>}) /\ GenInit /\ KeyInit /\ NoCommand
KeySpec == KeySpecInit /\ [][KeyNext]_vars

\* one invocation of either command line
CliSpecInit == MigInit({<<>>}) /\ GenInit /\ FnIdle /\ CliInit

CliSpec == CliSpecInit /\ [][CliNext]_vars

(***************************************************************************)
(* Properties of the content migration and the resolution pass.            *)
(***************************************************************************)
progress == migrationState.progress
contentDone == pc \in {"processPendingRelationships", "resolving",
                       "generateMigrationReport", "done"}
Accepted == {d \in DOMAIN docOutcome : docOutcome[d] = "accepted"}
Refused == {d \in DOMAIN docOutcome : docOutcome[d] \in {"rejected", "noSchema"}}
entityErrorsFor(id) ==
  {k \in 1..Len(migrationState.errors) :
     migrationState.errors[k].type = "entity" /\ migrationState.errors[k].id = id}

\* C1: after content migration, completed counts the documents the store accepted,
\* failed counts the documents it rejected or that have no schema, the two add up to
\* total, the error log holds one entity entry per refused document under that
\* document's id, and every other document was submitted and created.
C1_BatchFailuresIsolated ==
  contentDone =>
    /\ progress.entities.completed = Cardinality(Accepted)
    /\ progress.entities.completed = Len(strapi)
    /\ progress.entities.failed = Cardinality(Refused)
    /\ progress.entities.completed + progress.entities.failed = Len(documents)
    /\ progress.entities.total = Len(documents)
    /\ Accepted \cup Refused = DOMAIN documents
    /\ \A id \in {documents[d].id : d \in DOMAIN documents} :
         Cardinality(entityErrorsFor(id))
           = Cardinality({d \in Refused : documents[d].id = id})

\* three documents of one batch loop, the second rejected by the store
C1_Witness ==
  /\ contentDone
  /\ Len(documents) = 3
  /\ \A d \in 1..3 : documents[d].type = "post"
  /\ docOutcome = <<"accepted", "rejected", "accepted">>
  /\ progress.entities.completed = 2 /\ progress.entities.failed = 1
  /\ Cardinality(entityErrorsFor(documents[2].id)) = 1

allCreationsSettled == \A d \in DOMAIN docPc : docPc[d] = "settled"

\* C2: a GET or PUT of the resolution pass is sent only when every create request of
\* the run has settled, and a relationship is skipped for a missing mapping only if the
\* mapping is missing for good (no entity is created after the pass looked it up).
C2_RelationshipWritesDeferred ==
  /\ (issued.get + issued.put > 0 \/ relPc \in {"get", "put"}) => allCreationsSettled
  /\ pc \in {"resolving", "generateMigrationReport", "done"} => allCreationsSettled
  /\ \A k \in DOMAIN relTrace :
       relTrace[k].outcome = "skipped" =>
         \/ pendingRelationships[k].sourceId \notin DOMAIN migrationState.entities
         \/ pendingRelationships[k].targetId \notin DOMAIN migrationState.entities

\* a relationship whose target entity was created after its source entity is written
C2_Witness ==
  \E k \in DOMAIN relTrace :
    /\ relTrace[k].outcome = "written"
    /\ migrationState.entities[pendingRelationships[k].sourceId].strapiId.n
         < migrationState.entities[pendingRelationships[k].targetId].strapiId.n

transformed(d) ==
  docPc[d] \in {"posting", "settled"} /\ documents[d].type \in DOMAIN schemaMapping
relationFields(d) ==
  {f \in Range(DocFields) \cap DOMAIN schemaMapping[documents[d].type].attributes :
     schemaMapping[documents[d].type].attributes[f].type = "relation"}
\* the references found in the raw values of the relation fields of transformed documents
foundReferences ==
  UNION {UNION {{[d |-> d, f |-> f, k |-> k] :
                   k \in {i \in 1..Len(documents[d][f].items) :
                            /\ documents[d][f].items[i]._type = "reference"
                            /\ documents[d][f].items[i]._ref # "undefined"}} :
                f \in relationFields(d)} :
         d \in {x \in DOMAIN documents : transformed(x)}}
entryOf(r) ==
  [sourceType |-> documents[r.d].type, sourceId |-> documents[r.d].id,
   fieldName |-> r.f, targetId |-> documents[r.d][r.f].items[r.k]._ref,
   isArray |-> (documents[r.d][r.f].kind = "array"),
   relation |-> schemaMapping[documents[r.d].type].attributes[r.f].relation]

C4_MissingMappingCountedFailed ==
  (pc = "generateMigrationReport" /\ passes = 1) =>
    /\ \A k \in DOMAIN relTrace :
         relTrace[k].outcome = "skipped" => relTrace[k].requests = 0
    /\ progress.relationships.failed
         = Cardinality({k \in DOMAIN relTrace :
                          relTrace[k].outcome \in {"skipped", "rejected"}})
    /\ progress.relationships.completed
         = Cardinality({k \in DOMAIN relTrace : relTrace[k].outcome = "written"})

\* the first pass has skipped a relationship whose target has no mapping
C4_Witness ==
  /\ pc = "generateMigrationReport" /\ passes = 1
  /\ \E k \in DOMAIN relTrace :
       /\ relTrace[k].outcome = "skipped"
       /\ pendingRelationships[k].targetId \notin DOMAIN migrationState.entities

NoDuplicates(seq) == \A i, j \in 1..Len(seq) : i # j => seq[i] # seq[j]

\* C5: no array-valued relation field of the store ever holds a target id twice, and a
\* second resolution pass over the same queue (no request of the passes rejected)
\* leaves the store exactly as the first pass left it.
C5_ResolutionIdempotent ==
  /\ \A n \in 1..Len(strapi) :
       \A f \in DOMAIN strapi[n].data :
         (/\ f \in DOMAIN schemaMapping[strapi[n].contentType].attributes
          /\ schemaMapping[strapi[n].contentType].attributes[f].type = "relation"
          /\ IsArray(strapi[n].data[f]))
         => NoDuplicates(strapi[n].data[f].items)
  /\ (pc = "done" /\ passes >= 2 /\ rejections = 0) => strapi = afterFirstPass

\* the second pass has written an array field again that holds two members
C5_Witness ==
  /\ pc = "done" /\ passes = 2 /\ rejections = 0
  /\ \E k \in DOMAIN relTrace : relTrace[k].outcome = "written"
  /\ \E n \in 1..Len(strapi) :
       /\ "related" \in DOMAIN strapi[n].data
       /\ strapi[n].contentType = "post"
       /\ IsArray(strapi[n].data.related)
       /\ Len(strapi[n].data.related.items) = 2

(***************************************************************************)
(* Properties of the pair key.                                             *)
(***************************************************************************)
\* C6: getRelationshipKey(a, b) = getRelationshipKey(b, a) for every pair of type
\* names a, b, equal names included.
C6_PairKeySymmetric ==
  fnPc = "keys" => result[1] = result[2]

\* the key of two different names, given in descending order
C6_Witness ==
  /\ fnPc = "keys"
  /\ input = <<"b">> /\ other = <<"a", "-">>
  /\ result[2] = <<"a", "-", "-", "b">>

(***************************************************************************)
(* Properties of relationship inference.                                   *)
(***************************************************************************)
analyzed == genPc = "generateStrapiSchemas"
loaded(X) == \E i \in 1..Len(schemas) : schemas[i].name = X
schemaOf(X) == schemas[CHOOSE i \in 1..Len(schemas) : schemas[i].name = X]
\* the fields of X that reference Y
fieldsTo(X, Y) ==
  {k \in 1..MaxFields : schemaOf(X).fields[k].type # "string" /\ schemaOf(X).fields[k].to = Y}
\* field f is the only field of X that references Y, and is of the given type
onlyReference(X, f, Y, type) ==
  /\ loaded(X)
  /\ \E k \in 1..MaxFields :
       /\ fieldsTo(X, Y) = {k}
       /\ schemaOf(X).fields[k].name = f
       /\ schemaOf(X).fields[k].type = type
NoConfig == [type |-> "undefined"]
stored(X, f) ==
  IF X \in DOMAIN relationships /\ f \in DOMAIN relationships[X]
  THEN relationships[X][f] ELSE NoConfig
Fields == {FieldNames[k] : k \in 1..MaxFields}

\* C7: when f is X's array-of-reference field to Y and g is Y's array-of-reference
\* field to X (X and Y different types, f and g their only references to each other),
\* the analysis stores manyToMany for (X, f) targeting Y and for (Y, g) targeting X, one
\* side carrying mappedBy and the other inversedBy, each naming the other side's field.
C7_ArrayPairIsManyToMany ==
  analyzed =>
    \A X, Y \in TypeNames : \A f, g \in Fields :
      (X # Y /\ onlyReference(X, f, Y, "array") /\ onlyReference(Y, g, X, "array"))
      => \/ /\ stored(X, f) = relationConfig("manyToMany", Y, g, "undefined")
            /\ stored(Y, g) = relationConfig("manyToMany", X, "undefined", f)
         \/ /\ stored(X, f) = relationConfig("manyToMany", Y, "undefined", g)
            /\ stored(Y, g) = relationConfig("manyToMany", X, f, "undefined")

\* two types with an array of references to each other, analysed
C7_Witness ==
  /\ analyzed
  /\ onlyReference(<<"a">>, "f", <<"b", "-", "c">>, "array")
  /\ onlyReference(<<"b", "-", "c">>, "g", <<"a">>, "array")
  /\ stored(<<"a">>, "f").type = "relation"

\* C8: when f is X's single reference field to Y and g is Y's array-of-reference field
\* to X (X and Y different types, f and g their only references to each other), the
\* analysis stores (X, f) as oneToMany targeting Y with mappedBy g and (Y, g) as
\* manyToOne targeting X with inversedBy f, in whichever order the schemas were loaded.
C8_SingleAndArrayIsOneToMany ==
  analyzed =>
    \A X, Y \in TypeNames : \A f, g \in Fields :
      (X # Y /\ onlyReference(X, f, Y, "reference") /\ onlyReference(Y, g, X, "array"))
      => /\ stored(X, f) = relationConfig("oneToMany", Y, g, "undefined")
         /\ stored(Y, g) = relationConfig("manyToOne", X, "undefined", f)

\* the holder of the array was loaded first, so it is schemaA of the record
C8_Witness ==
  /\ analyzed
  /\ onlyReference(<<"a">>, "f", <<"b", "-", "c">>, "reference")
  /\ onlyReference(<<"b", "-", "c">>, "g", <<"a">>, "array")
  /\ schemas[1].name = <<"b", "-", "c">>
  /\ stored(<<"a">>, "f").relation = "oneToMany"

\* C9: after the analysis a loaded type none of whose fields is a reference or an
\* array of references has no entry in the relationships map.
C9_NoReferenceFieldsNoRecord ==
  analyzed =>
    \A X \in TypeNames :
      (loaded(X) /\ \A Y \in TypeNames : fieldsTo(X, Y) = {})
      => X \notin DOMAIN relationships

\* a type without reference fields that another type references, analysed
C9_Witness ==
  /\ analyzed
  /\ loaded(<<"b", "-", "c">>)
  /\ \A Y \in TypeNames : fieldsTo(<<"b", "-", "c">>, Y) = {}
  /\ onlyReference(<<"a">>, "f", <<"b", "-", "c">>, "reference")
  /\ <<"a">> \in DOMAIN relationships

(***************************************************************************)
(* Properties of pluralize and singularize.                                *)
(***************************************************************************)
\* a word that ends in none of the suffixes of the rule tables
plainEnding(w) ==
  /\ ~EndsWith(w, <<"y">>)
  /\ ~EndsWith(w, <<"s">>)
  /\ ~EndsWith(w, <<"x">>)
  /\ ~EndsWith(w, <<"z">>)
  /\ ~EndsWith(w, <<"s", "h">>)
  /\ ~EndsWith(w, <<"c", "h">>)

\* C10: for a word w that ends in none of the suffixes of the rule tables,
\* singularize(pluralize(w)) = w, and pluralize(singularize(p)) = p for p = pluralize(w).
C10_PluralSingularRoundTrip ==
  plainEnding(input) =>
    /\ fnPc \in {"singularized", "pluralizedAgain"} => result[2] = input
    /\ fnPc = "pluralizedAgain" => result[3] = result[1]

\* a word ending in a consonant has made the round trip
C10_Witness ==
  /\ fnPc = "pluralizedAgain"
  /\ input = <<"p", "a", "g">>
  /\ result = <<<<"p", "a", "g", "s">>, <<"p", "a", "g">>, <<"p", "a", "g", "s">>>>

(***************************************************************************)
(* Properties of the kind of a generated schema.                           *)
(***************************************************************************)
\* the type names whose schema file lies in a singleton folder or carries the
\* singleton marker in its name
markedTypes ==
  {parsedFiles[i].name : i \in
     {j \in 1..Len(parsedFiles) :
        \/ parsedFiles[j].folder \in {"singletons", "singleton"}
        \/ \E k \in 1..Len(parsedFiles[j].file) : parsedFiles[j].file[k] = ".singleton."}}

\* C11: a generated schema is a singleType exactly when the file of its type lay in
\* a singleton folder or carried the singleton marker; the export analysis leaves
\* the allowlist as recovery built it, so a type with one exported document that is
\* not on the allowlist is a collectionType.
C11_KindFollowsAllowlist ==
  /\ genPc # "loadSanitySchemas" => singletonTypes = markedTypes
  /\ genPc = "generateReport" =>
       \A name \in DOMAIN strapiSchemas :
         /\ strapiSchemas[name].kind = "singleType" <=> name \in markedTypes
         /\ strapiSchemas[name].kind \in {"singleType", "collectionType"}

\* one type with a single exported document generated as a collection, another
\* type generated as a single type because of its file name
C11_Witness ==
  /\ genPc = "generateReport"
  /\ \E name \in DOMAIN strapiSchemas :
       /\ name \in DOMAIN documentCounts
       /\ documentCounts[name] = 1
       /\ name \notin markedTypes
       /\ strapiSchemas[name].kind = "collectionType"
  /\ \E name \in DOMAIN strapiSchemas :
       /\ strapiSchemas[name].kind = "singleType"
       /\ \E i \in 1..Len(parsedFiles) :
            parsedFiles[i].name = name /\ parsedFiles[i].folder = ""

(***************************************************************************)
(* Properties of the rich text conversion.                                 *)
(***************************************************************************)
\* the block given to convertSanityBlockToStrapiBlock has been converted
converted == fnPc = "converted"

\* 'h' followed by a single digit
headingStyle(style) ==
  /\ Len(style) = 2
  /\ style[1] = "h"
  /\ style[2] \in {"0", "1", "2", "3", "4", "5", "6", "7", "8", "9"}

\* the digit d of a heading style as a number
digitOf(style) ==
  CHOOSE d \in 0..9 : <<"0", "1", "2", "3", "4", "5", "6", "7", "8", "9">>[d + 1] = style[2]

\* C12: a block whose style is 'h' followed by a single digit d becomes a heading of
\* level d, a block whose style is blockquote becomes a quote, and a block of any
\* other style, or of none, becomes a paragraph.
C12_BlockKindFollowsStyle ==
  converted =>
    /\ headingStyle(input.style) =>
         result[1].type = "heading" /\ result[1].level = digitOf(input.style)
    /\ input.style = Blockquote => result[1].type = "quote"
    /\ (~headingStyle(input.style) /\ input.style # Blockquote) =>
         result[1].type = "paragraph"

\* style h2 with the child {text "Hi", marks ["strong"]} gave a heading of level 2
\* with one bold text node "Hi"
C12_Witness ==
  /\ converted
  /\ input.style = <<"h", "2">>
  /\ input.children = <<[text |-> "Hi", marks |-> <<"strong">>]>>
  /\ result[1].type = "heading"
  /\ result[1].level = 2
  /\ result[1].children =
       <<[type |-> "text", text |-> "Hi", bold |-> TRUE, italic |-> FALSE,
          underline |-> FALSE, strikethrough |-> FALSE, code |-> FALSE]>>

\* the span has a mark whose key is the key of a link of the block's markDefs
hasLinkMark(span, markDefs) ==
  \E i \in 1..Len(span.marks), j \in 1..Len(markDefs) :
    markDefs[j].key = span.marks[i] /\ markDefs[j].type = "link"

\* C13: a span with a mark that matches a link of the block's markDefs is emitted as
\* a link node with one plain text child and none of the decoration flags, wherever
\* the link mark stands among the marks; any other span is emitted as a text node
\* with one boolean flag per decoration mark.
C13_LinkReplacesDecoration ==
  converted =>
    \A k \in 1..Len(input.children) :
      LET span == input.children[k]
          node == result[1].children[k]
      IN IF hasLinkMark(span, input.markDefs)
         THEN /\ node.type = "link"
              /\ DOMAIN node = {"type", "url", "children"}
              /\ node.children = <<[type |-> "text", text |-> span.text]>>
         ELSE /\ node.type = "text"
              /\ node.text = span.text
              /\ node.bold = Includes(span.marks, "strong")
              /\ node.italic = Includes(span.marks, "em")
              /\ node.underline = Includes(span.marks, "underline")
              /\ node.strikethrough = Includes(span.marks, "strike-through")
              /\ node.code = Includes(span.marks, "code")

\* a span whose link mark comes after a decoration mark was emitted as a link
C13_Witness ==
  /\ converted
  /\ input.children = <<[text |-> "Hi", marks |-> <<"strong", "k1">>]>>
  /\ hasLinkMark(input.children[1], input.markDefs)
  /\ result[1].children =
       <<[type |-> "link", url |-> "u1",
          children |-> <<[type |-> "text", text |-> "Hi"]>>]>>

(***************************************************************************)
(* Properties of the document transformation.                              *)
(***************************************************************************)
\* the transformation of field f of document d ends with an exception
throws(d, f) ==
  LET attributes == schemaMapping[documents[d].type].attributes
  IN /\ f \in DOMAIN attributes
     /\ transformFieldWithSchema(f, documents[d][f], attributes[f], documents[d],
                                 documents[d].type, migrationState.assets).value = Thrown

referencedAssets(value) ==
  IF value.kind \in {"single", "array"}
  THEN [k \in 1..Len(value.items) |-> extractAssetIdFromImage(value.items[k])]
  ELSE <<>>

\* no item of the raw value names an asset of the asset map
unresolved(value, assets) ==
  \A k \in 1..Len(referencedAssets(value)) :
    referencedAssets(value)[k] = <<>> \/ referencedAssets(value)[k][1] \notin DOMAIN assets

\* C15: transformMediaField never ends with an error; when the assets the raw value
\* refers to are not in the asset map the field value is null, for single and multiple
\* media fields and for every shape of the raw value, the empty array included; a
\* single media field that receives an array resolves the first item only.
C15_UnresolvedMediaIsNull ==
  fnPc = "transformed" =>
    /\ result[1] # Thrown
    /\ unresolved(input, other.assets) => result[1] = Null
    /\ (IsArray(input) /\ ~other.cfg.multiple /\ Len(input.items) > 0) =>
         result[1] = transformMediaField(Single(input.items[1]), other.cfg, other.assets)

\* a single media field that received two images resolved the first one; the second
\* one is not in the asset map
C15_Witness ==
  /\ fnPc = "transformed"
  /\ input = Array(<<Image("h1"), Image("h2")>>)
  /\ ~other.cfg.multiple
  /\ "h1" \in DOMAIN other.assets
  /\ result[1] = StrapiId(1)

(***************************************************************************)
(* Properties of the batch loop of migrateContent.                         *)
(***************************************************************************)
\* the documents of the type of document d, in the order of the export
sameType(d) == {e \in DOMAIN documents : documents[e].type = documents[d].type}

\* the number of the batch of document d within its type, from 0
batchNumber(d) == (Cardinality({e \in sameType(d) : e < d})) \div BatchSize

\* the create operation of document d is under way
inFlight(d) == docPc[d] \in {"start", "posting"}

\* the operations under way belong to one batch of one type, and the earlier batches
\* of that type have settled
OneBatchAtATime ==
  \A d \in DOMAIN documents :
    inFlight(d) =>
      \A e \in DOMAIN documents :
        /\ inFlight(e) => documents[e].type = documents[d].type
                          /\ batchNumber(e) = batchNumber(d)
        /\ (e \in sameType(d) /\ batchNumber(e) < batchNumber(d)) => docPc[e] = "settled"
        /\ (e \in sameType(d) /\ batchNumber(e) > batchNumber(d)) => docPc[e] = "idle"

\* the operations of a batch are issued in one step, all of them
BatchIssuedTogether ==
  \A d \in DOMAIN documents :
    (docPc[d] = "idle" /\ docPc'[d] # "idle") =>
      \A e \in sameType(d) :
        batchNumber(e) = batchNumber(d) => docPc[e] = "idle" /\ docPc'[e] = "start"

\* the pause stands before every batch but the first of a type, and only there
PauseBetweenBatches ==
  /\ (pc' = "delay" /\ pc # "delay") =>
       /\ pc = "awaitBatch"
       /\ \E d \in DOMAIN documents :
            documents[d].type = typeQueue[typeIdx] /\ docPc[d] = "idle"
  /\ (pc = "awaitBatch" /\ pc' # "awaitBatch"
      /\ \E d \in DOMAIN documents :
           documents[d].type = typeQueue[typeIdx] /\ docPc[d] = "idle") => pc' = "delay"
  /\ \A d \in DOMAIN documents :
       (docPc[d] = "idle" /\ docPc'[d] # "idle" /\ batchNumber(d) > 0) =>
         batchStart = batchNumber(d) * BatchSize
  /\ batchStart' # batchStart => (pc = "delay" \/ batchStart' = 0)

\* C18: within one type the documents are migrated in consecutive batches of at most
\* batchSize; the create operations of a batch are issued together, no operation of
\* the next batch starts before every operation of the current one has settled, and
\* the pause is taken between two consecutive batches of a type and not after the last.
C18_BatchesSettleBeforeNext ==
  /\ []OneBatchAtATime
  /\ [][BatchIssuedTogether /\ PauseBetweenBatches]_vars

\* two create requests of one batch are under way at once while the third document of
\* the type waits for the next batch
C18_Witness ==
  \E d, e, f \in DOMAIN documents :
    /\ d # e
    /\ documents[d].type = documents[e].type
    /\ documents[f].type = documents[d].type
    /\ docPc[d] = "posting"
    /\ docPc[e] = "posting"
    /\ docPc[f] = "idle"
    /\ batchNumber(f) = 1

(***************************************************************************)
(* Properties of the asset phase.                                          *)
(***************************************************************************)
\* the iteration of migrateAssets for the k-th asset is over
processed(k) == assetOutcome[k] # "none"

\* the images directory has no file <sha1hash>-<width>x<height>.png for the k-th asset
fileMissing(k) ==
  /\ assetList[k].metadata
  /\ <<assetList[k].sha1hash, assetList[k].dimensions, "png">> \notin images

assetErrors ==
  {i \in 1..Len(migrationState.errors) : migrationState.errors[i].type = "asset"}

\* the documents whose media field refers to the k-th asset
referringDocuments(k) ==
  {d \in DOMAIN documents :
     /\ documents[d].type = "page"
     /\ documents[d].related \in {Single(Image(assetList[k]._key)),
                                  Single(ExportedImage(assetList[k]._key))}}

errorsOf(type) ==
  {i \in 1..Len(migrationState.errors) : migrationState.errors[i].type = type}

\* every request the store rejected has its entry in the error log, and the failure
\* counters of the report count them
failuresRecorded ==
  /\ \A k \in DOMAIN assetList :
       assetOutcome[k] = "rejected" =>
         \E i \in errorsOf("asset") : migrationState.errors[i].id = assetList[k]._key
  /\ \A d \in DOMAIN documents :
       docOutcome[d] = "rejected" =>
         \E i \in errorsOf("entity") :
           /\ migrationState.errors[i].id = documents[d].id
           /\ migrationState.errors[i].contentType = documents[d].type
  /\ \A k \in DOMAIN relTrace :
       relTrace[k].outcome = "rejected" =>
         \E i \in errorsOf("relationship") :
           migrationState.errors[i].id = pendingRelationships[k].sourceId
  /\ migrationState.progress.assets.failed = Cardinality(errorsOf("asset"))
  /\ migrationState.progress.entities.failed = Cardinality(errorsOf("entity"))
  /\ Cardinality(errorsOf("relationship"))
       = Cardinality({k \in DOMAIN relTrace : relTrace[k].outcome = "rejected"})
  /\ migrationState.progress.assets.total = Len(assetList)
  /\ migrationState.progress.entities.total = Len(documents)

\* C17: migrate always reaches generateMigrationReport and writes the report, whatever
\* uploads, creations and relationship patches the store rejects; every such failure
\* is in the error log and in the counters the report is made of.
C17_RunReachesReport ==
  /\ <>(pc = "done")
  /\ [](pc \in {"generateMigrationReport", "done"} => failuresRecorded)

\* the report was written after a run in which an upload, a creation and a
\* relationship request were rejected
C17_Witness ==
  /\ pc = "done"
  /\ \E k \in DOMAIN assetList : assetOutcome[k] = "rejected"
  /\ \E d \in DOMAIN documents : docOutcome[d] = "rejected"
  /\ \E k \in DOMAIN relTrace : relTrace[k].outcome = "rejected"
  /\ failuresRecorded

(***************************************************************************)
(* The command lines.                                                       *)
(***************************************************************************)
\* the command runFromCLI reads: the first argument, 'migrate' without one
runnerCommand == IF Len(invocation.args) > 0 THEN invocation.args[1] ELSE "migrate"

completed ==
  /\ invocation.program = "migration-runner"
  /\ runner.pc = "finished"
  /\ ~runner.fatal

\* C20: a run of the migration runner's command line that completes has run
\* exactly the phases its command stands for: 'migrate' schema generation and
\* then content migration, 'schemas-only' schema generation alone,
\* 'content-only' content migration alone, 'analyze' neither, writing nothing.
C20_CommandRunsItsPhases ==
  completed =>
    /\ runnerCommand = "migrate" => runner.phases = <<"schemas", "content">>
    /\ runnerCommand = "schemas-only" => runner.phases = <<"schemas">>
    /\ runnerCommand = "content-only" => runner.phases = <<"content">>
    /\ runnerCommand = "analyze" => runner.phases = <<>> /\ runner.writes = {}

\* 'schemas-only' has completed
C20_Witness ==
  /\ completed
  /\ runnerCommand = "schemas-only"
  /\ runner.phases = <<"content">>

\* the operation that writes content has been started: run() with content
\* migration enabled, or the content command
contentRun ==
  \/ runner.pc \in {"validatePaths", "validateConfig", "generateSchemas", "migrateContent"}
       /\ runner.config.migrateContent
  \/ runner.pc = "contentCommand"
  \/ runner.pc = "finished" /\ runner.config.migrateContent

\* the credential is what the operation was configured with
preflightProblem ==
  LET env == invocation.env IN
  \/ ~runner.config.apiToken
  \/ ~env.exportDir
  \/ ~env.dataFile
  \/ ~env.strapiDir
  \/ runner.config.generateSchemas /\ ~env.projectDir
  \/ env.assetProvider = "cloudinary" /\ ~env.cloudName

\* C16: an operation that includes content migration and has a pre-flight
\* problem (no credential, a required path missing, cloudinary without a cloud
\* name) writes nothing and ends with a fatal error.
C16_PreflightAbortsBeforeWrites ==
  (runner.pc # "idle" /\ contentRun /\ preflightProblem) =>
     /\ runner.writes = {}
     /\ runner.pc = "finished" => runner.fatal

\* the content command has run without a credential
C16_Witness ==
  /\ invocation.program = "cli"
  /\ invocation.args = <<"content">>
  /\ ~invocation.env.token
  /\ runner.pc = "finished"
  /\ "create" \in runner.writes

(***************************************************************************)
(* The records of analyzeBidirectionalRelationships.                        *)
(***************************************************************************)
\* the record the edges between two types are grouped under
recordOf(from, to) ==
  relationshipMap[CHOOSE i \in 1..Len(relationshipMap) :
                    relationshipMap[i].key = getRelationshipKey(from, to)]

\* C24: after the analysis every collected edge lies in a record of its own pair of
\* type names: the record's schemaA and schemaB are the edge's two ends, and the
\* edges the record keeps go from schemaA to schemaB and back.
C24_RecordHoldsOnePair ==
  analyzed =>
    /\ \A i \in 1..Len(allReferences) :
         \A k \in 1..Len(allReferences[i].references) :
           LET from == allReferences[i].schemaName
               to == allReferences[i].references[k].targetType
               rec == recordOf(from, to)
           IN {rec.schemaA, rec.schemaB} = {from, to}
    /\ \A r \in 1..Len(relationshipMap) :
         /\ relationshipMap[r].aToB # NoRef
              => relationshipMap[r].aToB.targetType = relationshipMap[r].schemaB
         /\ relationshipMap[r].bToA # NoRef
              => relationshipMap[r].bToA.targetType = relationshipMap[r].schemaA

\* two pairs of type names whose keys are the same string, analysed
C24_Witness ==
  /\ analyzed
  /\ \E i, j \in 1..Len(allReferences) :
       /\ allReferences[i].schemaName = <<"a">>
       /\ allReferences[i].references[1].targetType = <<"b", "-", "c">>
       /\ allReferences[j].schemaName = <<"a", "-", "b">>
       /\ allReferences[j].references[1].targetType = <<"c">>
  /\ Len(relationshipMap) = 1

(***************************************************************************)
(* The schema files written for schemas with reference fields.             *)
(***************************************************************************)
written == genPc = "generateReport"

attribute(X, f) == strapiSchemas[X].attributes[f]

\* C21: every relation attribute of a written schema carries a target, and the target
\* names a type whose schema was written as well.
C21_RelationTargetsGenerated ==
  written =>
    \A X \in DOMAIN strapiSchemas : \A f \in DOMAIN strapiSchemas[X].attributes :
      attribute(X, f).type = "relation"
      => /\ "target" \in DOMAIN attribute(X, f)
         /\ \E Y \in DOMAIN strapiSchemas : attribute(X, f).target = apiTarget(Y)

\* a reference to a type that has no schema file, written as a relation
C21_Witness ==
  /\ written
  /\ DOMAIN strapiSchemas = {<<"a">>}
  /\ onlyReference(<<"a">>, "f", <<"c">>, "reference")
  /\ attribute(<<"a">>, "f") = relationConfig("oneToOne", <<"c">>, "undefined", "undefined")

\* field k of X is a reference or an array whose target type was not recovered
undetermined(X, k) ==
  /\ schemaOf(X).fields[k].type \in {"reference", "array"}
  /\ schemaOf(X).fields[k].to = NoType

collected == genPc \notin {"loadSanitySchemas", "collectAllReferences"}

\* C23: a reference field or array-of-reference field whose target type was not
\* recovered yields no edge in allReferences and is written as a json attribute.
C23_UndeterminedIsOpaque ==
  \A i \in 1..Len(schemas) : \A k \in 1..MaxFields :
    undetermined(schemas[i].name, k) =>
      /\ collected =>
           \A j \in 1..Len(allReferences) :
             allReferences[j].schemaName = schemas[i].name
             => \A r \in 1..Len(allReferences[j].references) :
                  allReferences[j].references[r].fieldName # schemas[i].fields[k].name
      /\ written => attribute(schemas[i].name, schemas[i].fields[k].name) = [type |-> "json"]

\* an array whose item target was not recovered, written as json
C23_Witness ==
  /\ written
  /\ loaded(<<"a">>)
  /\ undetermined(<<"a">>, 1)
  /\ schemaOf(<<"a">>).fields[1].type = "array"
  /\ attribute(<<"a">>, "f") = [type |-> "json"]
  /\ schemaOf(<<"a">>).fields[2].to = <<"a", "-", "b">>
  /\ Len(allReferences) = 1 /\ Len(allReferences[1].references) = 1

\* the conversion of a field that has no relationship record
typeBased(field) ==
  IF field.type = "array" THEN [type |-> "json"]
  ELSE IF field.type = "reference" THEN [type |-> "relation"]
  ELSE [type |-> "string"]

\* the last field of X that references Y
lastTo(X, Y) == CHOOSE k \in fieldsTo(X, Y) : \A j \in fieldsTo(X, Y) : j <= k

\* C28: when X declares two or more reference fields to the same type Y, after the
\* analysis the record of the pair keeps, in X's direction, the last of them; that
\* field has a relationship record and is written from it, each earlier field has
\* none and is written by the rules for its type.
C28_LastEdgeWins ==
  \A i \in 1..Len(schemas) : \A Y \in TypeNames :
    LET X == schemas[i].name
        last == schemas[i].fields[lastTo(X, Y)]
        edge == [fieldName |-> last.name, targetType |-> Y,
                 isArray |-> (last.type = "array")]
    IN Cardinality(fieldsTo(X, Y)) >= 2 =>
         /\ genPc \in {"generateStrapiSchemas", "generateReport"} =>
              /\ edge \in {recordOf(X, Y).aToB, recordOf(X, Y).bToA}
              /\ stored(X, last.name) # NoConfig
              /\ stored(X, last.name).target = apiTarget(Y)
              /\ \A k \in fieldsTo(X, Y) \ {lastTo(X, Y)} :
                   stored(X, schemas[i].fields[k].name) = NoConfig
         /\ written =>
              /\ attribute(X, last.name) = stored(X, last.name)
              /\ \A k \in fieldsTo(X, Y) \ {lastTo(X, Y)} :
                   attribute(X, schemas[i].fields[k].name) = typeBased(schemas[i].fields[k])

\* two references of one type to another; the second has the record
C28_Witness ==
  /\ written
  /\ loaded(<<"a">>)
  /\ fieldsTo(<<"a">>, <<"a", "-", "b">>) = {1, 2}
  /\ schemaOf(<<"a">>).fields[1].type = "array"
  /\ stored(<<"a">>, "g").type = "relation"
  /\ stored(<<"a">>, "f") = NoConfig
  /\ attribute(<<"a">>, "f") = [type |-> "json"]

(***************************************************************************)
(* The component files.                                                     *)
(***************************************************************************)
\* the entries of this.components that are component schemas
componentSchemas == {key \in DOMAIN components : "attributes" \in DOMAIN components[key]}

\* the object fields of the loaded schemas that came with nested fields
objectFields ==
  {field \in UNION {Range(schemas[i].fields) : i \in 1..Len(schemas)} :
     field.type = "object" /\ "fields" \in DOMAIN field}

\* C22: no attribute of a component schema is a relation, and a nested reference
\* field of an object field is a json attribute of the field's component.
C22_NestedRelationIsOpaque ==
  written =>
    /\ \A key \in componentSchemas : \A n \in DOMAIN components[key].attributes :
         components[key].attributes[n].type # "relation"
    /\ \A field \in objectFields : \A k \in 1..Len(field.fields) :
         (/\ field.fields[k].type = "reference"
          /\ getComponentKey(field.name) \in componentSchemas
          /\ field.fields[k].name \in DOMAIN components[getComponentKey(field.name)].attributes)
         => components[getComponentKey(field.name)].attributes[field.fields[k].name]
              = [type |-> "json"]

\* an object field with a nested string and a nested reference, written
C22_Witness ==
  /\ written
  /\ \E field \in objectFields :
       /\ field.name = "f"
       /\ field.fields = <<[name |-> "n", type |-> "string"], [name |-> "m", type |-> "reference"]>>
       /\ components[getComponentKey("f")].attributes.n = [type |-> "string"]
       /\ attribute(<<"a">>, "f") = ComponentField(FALSE, "f")

\* C27: every component attribute of a written schema names a component key under
\* which this.components holds a component schema.
C27_ComponentFieldsHaveSchemas ==
  written =>
    \A X \in DOMAIN strapiSchemas : \A f \in DOMAIN strapiSchemas[X].attributes :
      attribute(X, f).type = "component" => attribute(X, f).component \in componentSchemas

\* an object field and an array of strings, each with its component
C27_Witness ==
  /\ written
  /\ loaded(<<"a">>)
  /\ attribute(<<"a">>, "f") = ComponentField(FALSE, "f")
  /\ attribute(<<"a">>, "g") = ComponentField(TRUE, "g")
  /\ getComponentKey("f") \in componentSchemas
  /\ getComponentKey("g") \in componentSchemas
  /\ components[getComponentKey("g")] = createStringArrayComponent("g")

(***************************************************************************)
(* The pending queue across resolution passes.                             *)
(***************************************************************************)
\* C25: a pending relationship is consumed once and removed from the queue when it is
\* consumed: once processPendingRelationships has returned the queue is empty, and a
\* later pass over the queue finds no relationship to process.
C25_QueueConsumedOnce ==
  /\ (passes >= 1 /\ pc \in {"generateMigrationReport", "done"})
       => pendingRelationships = <<>>
  /\ passes >= 2 => pc # "resolving"

\* the first pass has returned after writing a relationship to the store
C25_Witness ==
  /\ passes = 1 /\ pc = "generateMigrationReport"
  /\ \E k \in DOMAIN relTrace : relTrace[k].outcome = "written"

(***************************************************************************)
(* The identity mapping during content migration.                          *)
(***************************************************************************)
entities == migrationState.entities

\* a step adds entries to the mapping at most, and leaves every entry it found as it was
appendOnly ==
  /\ DOMAIN entities \subseteq DOMAIN entities'
  /\ \A id \in DOMAIN entities : entities'[id] = entities[id]

\* C26: migrationState.entities is append-only and populated once per created entity:
\* no step overwrites or removes an entry, a document the store refused adds none, and
\* in every state the number of entries equals progress.entities.completed, also for
\* a stream in which two records carry the same id.
C26_MappingAppendOnly ==
  /\ [](Cardinality(DOMAIN entities) = progress.entities.completed)
  /\ [][appendOnly]_vars

\* a document was refused by the store and a later one of another id was created
C26_Witness ==
  \E d, e \in DOMAIN documents :
    /\ d < e
    /\ docOutcome[d] = "rejected" /\ docOutcome[e] = "accepted"
    /\ documents[d].id \notin DOMAIN entities
    /\ documents[e].id \in DOMAIN entities
    /\ Cardinality(DOMAIN entities) = progress.entities.completed

(***************************************************************************)
(* The resolution pass, one relationship at a time.                        *)
(***************************************************************************)
\* the relationships of the pass whose requests are under way
underWay ==
  {k \in DOMAIN relTrace : relTrace[k].requests > 0 /\ relTrace[k].outcome = "none"}

\* the entities of the store the k-th pending relationship addresses
addressed(k) ==
  LET source == entities[pendingRelationships[k].sourceId]
  IN lookup(strapi, endpoint(pendingRelationships[k].sourceType,
                             OrElse(source.documentId, source.strapiId)))

\* the id the k-th pending relationship adds to the field
targetOf(k) ==
  LET target == entities[pendingRelationships[k].targetId]
  IN OrElse(target.documentId, target.strapiId)

\* C30: the resolution pass handles one relationship at a time: while the pass runs at
\* most one relationship has requests under way, every earlier one has its outcome and
\* no later one has sent a request.  So once the pass is over, the array field of an
\* entity holds the target id of every array relationship written to it, however many
\* relationships address that field.
C30_OneRelationshipAtATime ==
  /\ Cardinality(underWay) <= 1
  /\ pc = "resolving" =>
       \A k \in DOMAIN relTrace :
         /\ k < relIdx => relTrace[k].outcome # "none"
         /\ k > relIdx => relTrace[k] = NoTrace
  /\ (passes >= 1 /\ pc \in {"generateMigrationReport", "done"}) =>
       \A k \in DOMAIN relTrace :
         (/\ relTrace[k].outcome = "written"
          /\ pendingRelationships[k].isArray)
         => \A n \in addressed(k) :
              LET fieldName == pendingRelationships[k].fieldName
              IN /\ fieldName \in DOMAIN strapi[n].data
                 /\ IsArray(strapi[n].data[fieldName])
                 /\ Includes(strapi[n].data[fieldName].items, targetOf(k))

\* the first pass is over: two relationships with different targets were written to
\* the same array field of one entity, which holds both ids
C30_Witness ==
  /\ passes = 1 /\ pc = "generateMigrationReport"
  /\ \E j, k \in DOMAIN relTrace :
       /\ j < k
       /\ relTrace[j].outcome = "written" /\ relTrace[k].outcome = "written"
       /\ pendingRelationships[j].isArray /\ pendingRelationships[k].isArray
       /\ pendingRelationships[j].sourceId = pendingRelationships[k].sourceId
       /\ pendingRelationships[j].fieldName = pendingRelationships[k].fieldName
       /\ targetOf(j) # targetOf(k)
       /\ \E n \in addressed(k) :
            /\ n \in addressed(j)
            /\ Includes(strapi[n].data.related.items, targetOf(j))
            /\ Includes(strapi[n].data.related.items, targetOf(k))

(***************************************************************************)
(* Where the schemas are written and where they are read.                  *)
(***************************************************************************)
\* C29: the schema and component files are written under the configured Strapi
\* project path, whatever path is configured, and a run that generated the schemas
\* and then migrated the content loaded its schema mapping from the place they were
\* written to.
C29_SchemasWrittenWhereRead ==
  runner.pc # "idle" =>
    /\ runner.schemasAt \subseteq {envStrapiProjectPath}
    /\ (Includes(runner.phases, "schemas") /\ Includes(runner.phases, "content"))
         => runner.mappingFrom = runner.schemasAt

\* a full migrate run under the default path has written the schemas and read them
C29_Witness ==
  /\ runner.pc = "finished"
  /\ runner.phases = <<"schemas", "content">>
  /\ invocation.env.STRAPI_PROJECT_PATH = "undefined"
  /\ runner.schemasAt = {DefaultStrapiProjectPath}
  /\ runner.mappingFrom = {DefaultStrapiProjectPath}

====
